---- MODULE Spec2Model ----
(***************************************************************************)
(* Model of the NASA Urban Planning backend (FastAPI).                     *)
(*                                                                         *)
(* Part 1: GET /api/official/comprehensive and                             *)
(*         OfficialNASAService.get_comprehensive_urban_data, the fan-out   *)
(*         over six upstream fetches joined by                             *)
(*         asyncio.gather with return_exceptions=True.                     *)
(* Part 2: POST /api/ai/analyze-urban-data.                                *)
(*                                                                         *)
(* Python values: a dict is [class |-> "dict", items |-> <record>], an     *)
(* exception object is [class |-> "Exception", args |-> <message>], None   *)
(* is [class |-> "NoneType"].  Floats of the requests are taken from small *)
(* sets of whole degrees.                                                  *)
(***************************************************************************)
EXTENDS Integers, Sequences, FiniteSets, TLC

VARIABLES
    pc,          \* position of the /api/official/comprehensive handler
    coords,      \* <<lat, lng>> of the request being served
    task,        \* task[i]: state of the i-th fetch of the current call
    attempts,    \* attempts[i]: how many times the i-th fetch was started
    results,     \* results[i]: what the i-th fetch returned or raised
    done_order,  \* indices of the finished fetches, in completion order
    data,        \* return value of get_comprehensive_urban_data
    response,    \* HTTP response of the handler
    ai_pc,       \* position of the /api/ai/analyze-urban-data handler
    ai_body,     \* JSON body of the request being served
    ai_response, \* HTTP response of the handler
    analyze_body, \* JSON body of the POST /api/analyze request being served
    env,         \* environment variables of the process
    services,    \* fields of the module-level service instances of main.py
    reqs,        \* reqs[r]: the request served in slot r of the event loop
    sessions,    \* sessions[r]: state of the aiohttp.ClientSession created in slot r
    instances,   \* instances[r]: session field of the service object of slot r
    answered,    \* the last request served by a handler that never suspends
    call         \* the service call made for a request: what it asked, what it got

vars == <<pc, coords, task, attempts, results, done_order, data, response,
          ai_pc, ai_body, ai_response,
          analyze_body, env, services, reqs, sessions, instances, answered,
          call>>

agg_vars == <<pc, coords, task, attempts, results, done_order, data, response>>
ai_vars == <<ai_pc, ai_body, ai_response>>
app_vars == <<env, services, reqs, sessions, instances, answered, call>>

(***************************************************************************)
(* Python values                                                           *)
(***************************************************************************)
None == [class |-> "NoneType"]
Dict(items) == [class |-> "dict", items |-> items]
Exception(msg) == [class |-> "Exception", args |-> msg]
List(items) == [class |-> "list", items |-> items]

\* d.get(key, default): the default is used only when the key is missing
DictGet(d, key, default) ==
    IF key \in DOMAIN d.items THEN d.items[key] ELSE default

\* isinstance(r, Exception)
IsException(r) == r.class = "Exception"
\* key in r, for a dict r
HasKey(r, key) == r.class = "dict" /\ key \in DOMAIN r.items
\* str(e) of an exception is its message
Str(e) == e.args

(***************************************************************************)
(* The six fetches of get_comprehensive_urban_data, in declaration order   *)
(***************************************************************************)
N == 6
Sources == 1..N

\* keys of the `sources` mapping, bound to results[0..5]
SourceKeys ==
    <<"nasa_earthdata", "nasa_sedac", "eu_ghsl", "worldpop", "eu_copernicus", "wri">>

\* the 'source' field of each fetch's success payload
SourceLabel ==
    <<"NASA Earthdata Worldview", "NASA SEDAC", "EU Copernicus GHSL", "WorldPop",
      "EU Copernicus", "World Resources Institute">>

\* the message of each fetch's {'error': ...} return
FailureMessage ==
    <<"Failed to fetch data", "Failed to fetch SEDAC data", "Failed to fetch GHSL data",
      "Failed to fetch WorldPop data", "Failed to fetch Copernicus data",
      "Failed to fetch WRI data">>

\* the message of an exception that leaves fetch i
RaisedMessage ==
    <<"earthdata raised", "sedac raised", "ghsl raised", "worldpop raised",
      "copernicus raised", "wri raised">>

\* How one fetch can end, seen from the awaiting gather: it returns its
\* success payload (status 200), it returns {'error': ...} (another status,
\* or an exception caught by its own except clause), or an exception leaves
\* the coroutine and gather collects it (the case lines 293-295 test with
\* isinstance(r, Exception)).
Outcomes == {"success", "failure", "raised"}

\* Request coordinates (lat, lng) in whole degrees.
Locations == {<<40, -74>>, <<-90, 180>>}

\* The value fetch i hands to gather.
Fetch(i, lat, lng, outcome) ==
    CASE outcome = "success" ->
            Dict([source |-> SourceLabel[i],
                  coordinates |-> [lat |-> lat, lng |-> lng],
                  status |-> "success"])
      [] outcome = "failure" -> Dict([error |-> FailureMessage[i]])
      [] outcome = "raised" -> Exception(RaisedMessage[i])

\* Task state after a fetch ended.
Terminal(outcome) == IF outcome = "success" THEN "Succeeded" ELSE "Failed"

(***************************************************************************)
(* asyncio.gather with return_exceptions=True                              *)
(***************************************************************************)
\* (mutant) the awaiter resumed at the first completion, as
\* asyncio.wait with FIRST_COMPLETED would
GatherReadyFirstCompleted(t) == \E i \in Sources : t[i] \in {"Succeeded", "Failed"}

\* gather resumes its awaiter once every task has finished
GatherReady(t) == \A i \in Sources : t[i] \in {"Succeeded", "Failed"}

\* (mutant) results handed over in completion order, as asyncio.as_completed would
GatherResultsAsCompleted(res, order) == [k \in 1..Len(order) |-> res[order[k]]]

\* the list gather returns: position i holds task i's result or exception
GatherResults(res, order) == res

\* (mutant) gather without return_exceptions: a task's exception is raised
\* into the awaiting caller
GatherRaisesFirstException(res) == \E i \in Sources : IsException(res[i])

\* does the await raise into the caller?  Never with return_exceptions=True.
GatherRaises(res) == FALSE

(***************************************************************************)
(* The body of get_comprehensive_urban_data after the await                *)
(***************************************************************************)
SourcesMapping(rs) == [k \in {SourceKeys[i] : i \in Sources} |->
                          rs[CHOOSE i \in Sources : SourceKeys[i] = k]]

\* len([r for r in results if not isinstance(r, Exception)])
TotalSources(rs) == Len(SelectSeq(rs, LAMBDA r : ~IsException(r)))

\* (mutant) the filter tests the wrong key
SuccessfulSourcesWrongKey(rs) ==
    LET kept == SelectSeq(rs, LAMBDA r : ~IsException(r) /\ HasKey(r, "error"))
    IN  [p \in 1..Len(kept) |-> "Unknown"]

\* [r.get('source', 'Unknown') for r in results
\*      if not isinstance(r, Exception) and 'source' in r]
SuccessfulSources(rs) ==
    LET kept == SelectSeq(rs, LAMBDA r : ~IsException(r) /\ HasKey(r, "source"))
    IN  [p \in 1..Len(kept) |-> kept[p].items.source]

\* [str(r) for r in results if isinstance(r, Exception)]
FailedSources(rs) ==
    LET kept == SelectSeq(rs, IsException)
    IN  [p \in 1..Len(kept) |-> Str(kept[p])]

Summary(rs) ==
    [total_sources |-> TotalSources(rs),
     successful_sources |-> SuccessfulSources(rs),
     failed_sources |-> FailedSources(rs)]

ComprehensiveData(lat, lng, rs) ==
    Dict([coordinates |-> [lat |-> lat, lng |-> lng],
          timestamp |-> "isoformat",
          sources |-> SourcesMapping(rs),
          summary |-> Summary(rs)])

\* what the try block evaluates to; the except branch returns the bare error
ComprehensiveReturn(lat, lng, res, order) ==
    IF GatherRaises(res)
    THEN Dict([error |-> "Error getting comprehensive data"])
    ELSE ComprehensiveData(lat, lng, GatherResults(res, order))

(***************************************************************************)
(* JSONResponse(content=data): json.dumps refuses an exception object      *)
(***************************************************************************)
JsonSerializable(d) ==
    HasKey(d, "sources") =>
        \A k \in DOMAIN d.items.sources : ~IsException(d.items.sources[k])

HandlerResponse(d) ==
    IF JsonSerializable(d)
    THEN [status |-> 200, body |-> d]
    ELSE [status |-> 500,
          body |-> Dict([detail |-> "Object of type Exception is not JSON serializable"])]

(***************************************************************************)
(* Actions of GET /api/official/comprehensive                              *)
(***************************************************************************)
\* The handler is entered and get_comprehensive_urban_data builds its list
\* of six coroutines; none has run yet.
Request(loc) ==
    /\ pc \in {"idle", "responded"}
    /\ pc' = "gathering"
    /\ coords' = loc
    /\ task' = [i \in Sources |-> "Created"]
    /\ attempts' = [i \in Sources |-> 0]
    /\ results' = [i \in Sources |-> None]
    /\ done_order' = <<>>
    /\ data' = None
    /\ response' = None
    /\ UNCHANGED <<ai_vars, analyze_body, app_vars>>

\* (mutant) the fetches awaited one after another: fetch i starts only
\* after every earlier fetch has finished
StartFetchSequential(i) ==
    /\ pc = "gathering"
    /\ task[i] = "Created"
    /\ \A j \in Sources : j < i => task[j] \in {"Succeeded", "Failed"}
    /\ task' = [task EXCEPT ![i] = "Pending"]
    /\ attempts' = [attempts EXCEPT ![i] = @ + 1]
    /\ UNCHANGED <<pc, coords, results, done_order, data, response>>
    /\ UNCHANGED <<ai_vars, analyze_body, app_vars>>

\* The event loop starts the tasks in the order gather scheduled them;
\* task i runs up to its first suspension.
StartFetch(i) ==
    /\ pc = "gathering"
    /\ task[i] = "Created"
    /\ \A j \in Sources : j < i => task[j] # "Created"
    /\ task' = [task EXCEPT ![i] = "Pending"]
    /\ attempts' = [attempts EXCEPT ![i] = @ + 1]
    /\ UNCHANGED <<pc, coords, results, done_order, data, response>>
    /\ UNCHANGED <<ai_vars, analyze_body, app_vars>>

\* (mutant) a fetch that fails is started again once instead of ending
FinishFetchRetry(i, outcome) ==
    /\ pc = "gathering"
    /\ task[i] = "Pending"
    /\ IF outcome # "success" /\ attempts[i] < 2
       THEN /\ attempts' = [attempts EXCEPT ![i] = @ + 1]
            /\ UNCHANGED <<task, results, done_order>>
       ELSE /\ task' = [task EXCEPT ![i] = Terminal(outcome)]
            /\ results' = [results EXCEPT ![i] = Fetch(i, coords[1], coords[2], outcome)]
            /\ done_order' = Append(done_order, i)
            /\ UNCHANGED attempts
    /\ UNCHANGED <<pc, coords, data, response>>
    /\ UNCHANGED <<ai_vars, analyze_body, app_vars>>

\* (mutant) an exception leaving one fetch cancels the fetches still pending
FinishFetchCancelSiblings(i, outcome) ==
    /\ pc = "gathering"
    /\ task[i] = "Pending"
    /\ task' = [j \in Sources |->
                  IF j = i THEN Terminal(outcome)
                  ELSE IF outcome = "raised" /\ task[j] = "Pending" THEN "Failed"
                  ELSE task[j]]
    /\ results' = [j \in Sources |->
                  IF j = i THEN Fetch(i, coords[1], coords[2], outcome)
                  ELSE IF outcome = "raised" /\ task[j] = "Pending"
                  THEN Exception("CancelledError")
                  ELSE results[j]]
    /\ done_order' = Append(done_order, i)
    /\ UNCHANGED <<pc, coords, attempts, data, response>>
    /\ UNCHANGED <<ai_vars, analyze_body, app_vars>>

\* A pending fetch ends, in any order relative to the others.
FinishFetch(i, outcome) ==
    /\ pc = "gathering"
    /\ task[i] = "Pending"
    /\ task' = [task EXCEPT ![i] = Terminal(outcome)]
    /\ results' = [results EXCEPT ![i] = Fetch(i, coords[1], coords[2], outcome)]
    /\ done_order' = Append(done_order, i)
    /\ UNCHANGED <<pc, coords, attempts, data, response>>
    /\ UNCHANGED <<ai_vars, analyze_body, app_vars>>

\* (mutant) the gather wrapped in a timeout: when it expires the fetches
\* still pending are cancelled and the aggregate is built from what is there
RespondWithTimeout ==
    /\ pc = "gathering"
    /\ \A i \in Sources : task[i] # "Created"
    /\ task' = [i \in Sources |-> IF task[i] = "Pending" THEN "Failed" ELSE task[i]]
    /\ results' = [i \in Sources |->
                     IF task[i] = "Pending" THEN Exception("TimeoutError") ELSE results[i]]
    /\ data' = ComprehensiveReturn(coords[1], coords[2], results', done_order)
    /\ response' = HandlerResponse(data')
    /\ pc' = "responded"
    /\ UNCHANGED <<coords, attempts, done_order>>
    /\ UNCHANGED <<ai_vars, analyze_body, app_vars>>

\* gather resumes the aggregator, which builds its return value; the
\* handler wraps it in a JSONResponse or answers 500.
Respond ==
    /\ pc = "gathering"
    /\ GatherReady(task)
    /\ data' = ComprehensiveReturn(coords[1], coords[2], results, done_order)
    /\ response' = HandlerResponse(data')
    /\ pc' = "responded"
    /\ UNCHANGED <<coords, task, attempts, results, done_order>>
    /\ UNCHANGED <<ai_vars, analyze_body, app_vars>>

(***************************************************************************)
(* Process start: the environment and the module-level service instances   *)
(***************************************************************************)
EnvNames ==
    {"GEMINI_API_KEY", "NASA_API_KEY", "NASA_EARTHDATA_TOKEN",
     "NASA_EARTHDATA_USERNAME", "NASA_EARTHDATA_PASSWORD"}

\* an environment is the set of the variables that are set
UnsetEnv == {}

\* the environments a process is started in: nothing set, everything set
Envs == {UnsetEnv, EnvNames}

PyStr(s) == [class |-> "str", value |-> s]

\* os.getenv(name): the value, or None
Getenv(e, name) == IF name \in e THEN PyStr("secret") ELSE None

\* os.getenv(name, ""): the value, or the empty string
GetenvOrEmpty(e, name) == IF name \in e THEN "secret" ELSE ""

\* the classes whose instances carry an aiohttp session
SessionServices == {"landsat", "worldpop", "copernicus", "nasa_library"}

\* LandsatService.__init__ and its three siblings: base_url and session = None
SessionServiceInit(name) == [base_url |-> name, session |-> None]

\* main.py lines 48-55: the eight instances built at import time
ConstructServices(e) ==
    [nasa |-> [base_url |-> "gibs", api_key |-> GetenvOrEmpty(e, "NASA_API_KEY")],
     official |-> [base_urls |-> SourceKeys,
                   earthdata_token |-> Getenv(e, "NASA_EARTHDATA_TOKEN"),
                   earthdata_username |-> Getenv(e, "NASA_EARTHDATA_USERNAME"),
                   earthdata_password |-> Getenv(e, "NASA_EARTHDATA_PASSWORD")],
     gemini |-> [api_key |-> GetenvOrEmpty(e, "GEMINI_API_KEY"),
                 model_name |-> "gemini-pro"],
     landsat |-> SessionServiceInit("landsat"),
     worldpop |-> SessionServiceInit("worldpop"),
     copernicus |-> SessionServiceInit("copernicus"),
     nasa_library |-> SessionServiceInit("nasa_library"),
     ai_analysis |-> [analysis_cache |-> {}]]

\* requests the event loop serves at the same time
MaxInFlight == 2
Slots == 1..MaxInFlight

\* a slot: the handler's position, its arguments and its local variables
IdleSlot ==
    [pc |-> "idle", endpoint |-> "none", source |-> 0, lat |-> 0, lng |-> 0,
     opened |-> 0, session |-> 0, event |-> "none", data |-> None,
     raised |-> None, response |-> None]

\* no service method has been called
IdleCall ==
    [op |-> "none", pc |-> "idle", args |-> <<>>, asked |-> <<>>,
     got |-> <<>>, ret |-> None, response |-> None]

\* no request in flight or served, no session created
AppIdle ==
    /\ reqs = [r \in Slots |-> IdleSlot]
    /\ sessions = [r \in Slots |-> "none"]
    /\ instances = [r \in Slots |-> None]
    /\ answered = None
    /\ call = IdleCall

Init ==
    /\ pc = "idle"
    /\ coords = <<0, 0>>
    /\ task = [i \in Sources |-> "Created"]
    /\ attempts = [i \in Sources |-> 0]
    /\ results = [i \in Sources |-> None]
    /\ done_order = <<>>
    /\ data = None
    /\ response = None
    /\ ai_pc = "idle"
    /\ ai_body = None
    /\ ai_response = None
    /\ analyze_body = None
    /\ env = UnsetEnv
    /\ services = ConstructServices(env)
    /\ AppIdle

Next ==
    \/ \E loc \in Locations : Request(loc)
    \/ \E i \in Sources : StartFetch(i)
    \/ \E i \in Sources, outcome \in Outcomes : FinishFetch(i, outcome)
    \/ Respond

Spec == Init /\ [][Next]_vars

\* The event loop runs every task that is ready: a scheduled fetch is
\* started and an aggregator whose gather is complete is resumed.  Nothing
\* obliges an upstream to answer, so FinishFetch carries no fairness.
\* The requests of this specification are those for New York City, the
\* location used by test_real_apis.py.
FairNext ==
    \/ Request(<<40, -74>>)
    \/ \E i \in Sources : StartFetch(i)
    \/ \E i \in Sources, outcome \in Outcomes : FinishFetch(i, outcome)
    \/ Respond

FairSpec ==
    /\ Init /\ [][FairNext]_vars
    /\ WF_vars(Respond)
    /\ \A i \in Sources : WF_vars(StartFetch(i))

(***************************************************************************)
(* Part 2: POST /api/ai/analyze-urban-data                                 *)
(***************************************************************************)
\* longest coordinates list of a request body
MaxCoords == 3

CoordValues == {-74, 0, 40}

CoordLists == UNION {[1..n -> CoordValues] : n \in 0..MaxCoords}

\* the optional keys a JSON body may carry besides coordinates
OptionalKeys == {"analysis_type", "context", "query"}

BodyValue(key, c) ==
    CASE key = "coordinates" -> c
      [] key = "analysis_type" -> "climate"
      [] key = "context" -> Dict([city |-> "New York"])
      [] key = "query" -> "heat islands"

\* JSON bodies: coordinates plus any subset of the optional keys
Bodies ==
    {[key \in {"coordinates"} \cup opt |-> BodyValue(key, c)] :
        c \in CoordLists, opt \in SUBSET OptionalKeys}

\* class AnalysisRequest(BaseModel): the declared fields, with defaults for
\* the absent ones; keys of the body that are not declared are dropped.
AnalysisRequest(body) ==
    [coordinates |-> body["coordinates"],
     analysis_type |-> IF "analysis_type" \in DOMAIN body
                       THEN body["analysis_type"] ELSE "comprehensive",
     query |-> IF "query" \in DOMAIN body THEN body["query"] ELSE None]

\* attribute access on a model instance: only declared fields exist
HasAttr(request, name) == name \in DOMAIN request

\* AIAnalysisService.analyze_urban_data: the literal analysis, wrapped
AnalyzeUrbanData(lat, lng, radius_km, context) ==
    Dict([success |-> TRUE,
          data |-> [location |-> [lat |-> lat, lng |-> lng],
                    radius_km |-> radius_km,
                    analysis_timestamp |-> "isoformat",
                    urban_insights |-> "Moderate",
                    sustainability_score |-> "Good"],
          message |-> "Comprehensive urban analysis completed"])

HttpError(detail) == [status |-> 500, body |-> Dict([detail |-> detail])]

\* the handler analyze_urban_data of main.py: the arguments of the service
\* call are evaluated left to right inside the try block
AnalyzeHandler(request) ==
    IF Len(request.coordinates) < 2
    THEN HttpError("list index out of range")
    ELSE IF ~HasAttr(request, "context")
    THEN HttpError("'AnalysisRequest' object has no attribute 'context'")
    ELSE [status |-> 200,
          body |-> AnalyzeUrbanData(request.coordinates[1], request.coordinates[2],
                                    10, request["context"])]

\* One request to POST /api/ai/analyze-urban-data, from body to response.
AnalyzeRequest(body) ==
    /\ ai_pc \in {"idle", "responded"}
    /\ ai_body' = body
    /\ ai_response' = AnalyzeHandler(AnalysisRequest(body))
    /\ ai_pc' = "responded"
    /\ UNCHANGED <<agg_vars, analyze_body, app_vars>>

NextAI == \E body \in Bodies : AnalyzeRequest(body)

SpecAI == Init /\ [][NextAI]_vars

(***************************************************************************)
(* Part 3: POST /api/analyze, NASAService.get_comprehensive_data and       *)
(*         GeminiService                                                   *)
(***************************************************************************)
\* (mutant) chat without the test of the key
GeminiChatNoKeyCheck(api_key, message, context) ==
    "Gemini AI integration coming soon"

\* GeminiService.chat: the key is the only thing it reads
GeminiChat(api_key, message, context) ==
    IF api_key = ""
    THEN "Error: Gemini API key not configured"
    ELSE "Gemini AI integration coming soon"

\* GeminiService.analyze_with_context: builds a context and calls chat
AnalyzeWithContext(api_key, query, nasa_data) ==
    GeminiChat(api_key, query, [nasa_data |-> nasa_data])

\* the four fetches of get_comprehensive_data, in declaration order
NASASources == 1..4

NASAKeys == <<"temperature", "air_quality", "vegetation", "precipitation">>

NASALabel ==
    <<"MODIS Terra Land Surface Temperature", "Aura OMI Nitrogen Dioxide",
      "Landsat 8 NDVI", "GPM Precipitation">>

NASARaisedMessage ==
    <<"Failed to get temperature data: ", "Failed to get air quality data: ",
      "Failed to get vegetation data: ", "Failed to get precipitation data: ">>

\* A fetch of NASAService returns its literal payload, or its except clause
\* re-raises what the try block raised.
NASAOutcomes == {"success", "raised"}

NASAFetch(i, lat, lng, outcome) ==
    IF outcome = "success"
    THEN Dict([source |-> NASALabel[i],
               coordinates |-> <<lat, lng>>,
               status |-> "API integration pending"])
    ELSE Exception(NASARaisedMessage[i])

NASAGatherReady(t) == \A i \in NASASources : t[i] \in {"Succeeded", "Failed"}

\* (mutant) the result stored as gather handed it over
NormaliseKeepRaw(r) == r

\* results[i] if not isinstance(results[i], Exception) else {"error": str(results[i])}
Normalise(r) == IF IsException(r) THEN Dict([error |-> Str(r)]) ELSE r

NASAComprehensiveData(lat, lng, rs) ==
    Dict([coordinates |-> <<lat, lng>>,
          timestamp |-> "isoformat",
          temperature |-> Normalise(rs[1]),
          air_quality |-> Normalise(rs[2]),
          vegetation |-> Normalise(rs[3]),
          precipitation |-> Normalise(rs[4]),
          status |-> "API integration pending"])

\* values of the optional query of a body
QueryValues == {"", "heat islands"}

\* JSON bodies of POST /api/analyze: coordinates, with or without a query
AnalyzeBodies ==
    {[key \in {"coordinates"} \cup opt |-> IF key = "coordinates" THEN c ELSE q] :
        c \in CoordLists, opt \in SUBSET {"query"}, q \in QueryValues}

\* a variant of the handler's test that looks only at the presence of query
QueryProvidedNotNone(body) == "query" \in DOMAIN body

\* `if request.query:` is true for a query that is present and not empty
QueryProvided(body) == "query" \in DOMAIN body /\ body["query"] # ""

\* the content of the JSONResponse of analyze_climate_data
AnalyzeClimateContent(body, nasa_data, api_key) ==
    Dict([coordinates |-> body["coordinates"],
          nasa_data |-> nasa_data,
          gemini_insights |->
              IF QueryProvided(body)
              THEN PyStr(AnalyzeWithContext(api_key, body["query"], nasa_data))
              ELSE None,
          timestamp |-> "isoformat"])

\* the calls of gemini_service.analyze_with_context the handler makes for a
\* body once nasa_data is known: what each was asked
GeminiAsked(body, nasa_data) ==
    IF QueryProvided(body)
    THEN <<[query |-> body["query"], nasa_data |-> nasa_data]>>
    ELSE <<>>

\* what each of these calls returned
GeminiGot(body, nasa_data, api_key) ==
    IF QueryProvided(body)
    THEN <<AnalyzeWithContext(api_key, body["query"], nasa_data)>>
    ELSE <<>>

\* The handler is entered.  Indexing request.coordinates raises IndexError
\* before the service is called when fewer than two numbers were sent;
\* otherwise get_comprehensive_data builds its four coroutines.  A call of
\* either aggregator starts from fresh local state, so the requests to this
\* endpoint are followed from process start and from its own responses.
NASARequest(body) ==
    /\ pc \in {"idle", "nasa_responded"}
    /\ analyze_body' = body
    /\ task' = [i \in NASASources |-> "Created"]
    /\ attempts' = [i \in NASASources |-> 0]
    /\ results' = [i \in NASASources |-> None]
    /\ done_order' = <<>>
    /\ data' = None
    /\ IF Len(body["coordinates"]) < 2
       THEN /\ pc' = "nasa_responded"
            /\ coords' = <<0, 0>>
            /\ response' = HttpError("list index out of range")
       ELSE /\ pc' = "nasa_gathering"
            /\ coords' = <<body["coordinates"][1], body["coordinates"][2]>>
            /\ response' = None
    /\ call' = [IdleCall EXCEPT !.op = "analyze_with_context"]
    /\ UNCHANGED <<ai_vars, env, services, reqs, sessions, instances, answered>>

\* The event loop runs task i.  The coroutine contains no await, so it runs
\* from start to end in one step, and the tasks run in the order in which
\* gather scheduled them.
NASARunFetch(i, outcome) ==
    /\ pc = "nasa_gathering"
    /\ task[i] = "Created"
    /\ \A j \in NASASources : j < i => task[j] \in {"Succeeded", "Failed"}
    /\ task' = [task EXCEPT ![i] = Terminal(outcome)]
    /\ attempts' = [attempts EXCEPT ![i] = @ + 1]
    /\ results' = [results EXCEPT ![i] = NASAFetch(i, coords[1], coords[2], outcome)]
    /\ done_order' = Append(done_order, i)
    /\ UNCHANGED <<pc, coords, data, response, analyze_body, ai_vars, app_vars>>

\* gather resumes get_comprehensive_data, which returns the normalised
\* aggregate; the handler asks Gemini when a query was sent and answers.
\* analyze_with_context suspends nowhere, so the call runs within this step;
\* what it was asked and what it returned is kept in call.
NASARespond ==
    /\ pc = "nasa_gathering"
    /\ NASAGatherReady(task)
    /\ data' = NASAComprehensiveData(coords[1], coords[2], results)
    /\ response' = [status |-> 200,
                    body |-> AnalyzeClimateContent(analyze_body, data',
                                                   services.gemini.api_key)]
    /\ call' = [call EXCEPT
                    !.asked = GeminiAsked(analyze_body, data'),
                    !.got = GeminiGot(analyze_body, data', services.gemini.api_key)]
    /\ pc' = "nasa_responded"
    /\ UNCHANGED <<coords, task, attempts, results, done_order, analyze_body,
                   ai_vars, env, services, reqs, sessions, instances, answered>>

NextNASA ==
    \/ \E body \in AnalyzeBodies : NASARequest(body)
    \/ \E i \in NASASources, outcome \in NASAOutcomes : NASARunFetch(i, outcome)
    \/ NASARespond

\* POST /api/analyze alone
SpecNASA == Init /\ [][NextNASA]_vars

\* both aggregators
NextAggregators == Next \/ NextNASA

SpecAggregators == Init /\ [][NextAggregators]_vars

(***************************************************************************)
(* Part 4: the application, several requests in flight                     *)
(***************************************************************************)
\* The process starts in any of the environments.
InitApp ==
    /\ pc = "idle"
    /\ coords = <<0, 0>>
    /\ task = [i \in Sources |-> "Created"]
    /\ attempts = [i \in Sources |-> 0]
    /\ results = [i \in Sources |-> None]
    /\ done_order = <<>>
    /\ data = None
    /\ response = None
    /\ ai_pc = "idle"
    /\ ai_body = None
    /\ ai_response = None
    /\ analyze_body = None
    /\ env \in Envs
    /\ services = ConstructServices(env)
    /\ AppIdle

\* what an action of Part 4 leaves alone besides the application state
handler_vars == <<agg_vars, ai_vars, analyze_body, env, call>>

\* a served request: endpoint, request body and response
Served(endpoint, body, status, content) ==
    [class |-> "served", endpoint |-> endpoint, request |-> body,
     response |-> [status |-> status, body |-> content]]

\* GET /: no service call, no try block
Root ==
    /\ answered' = Served("root", None, 200,
                          Dict([message |-> "NASA Urban Planning API",
                                status |-> "healthy",
                                version |-> "1.0.0",
                                timestamp |-> "isoformat"]))
    /\ UNCHANGED <<handler_vars, services, reqs, sessions, instances>>

\* (mutant) a health check that waits until no upstream call is pending
HealthCheckProbing ==
    /\ \A r \in Slots : reqs[r].pc # "awaiting"
    /\ answered' = Served("health", None, 200,
                          Dict([status |-> "healthy", timestamp |-> "isoformat"]))
    /\ UNCHANGED <<handler_vars, services, reqs, sessions, instances>>

\* GET /health
HealthCheck ==
    /\ answered' = Served("health", None, 200,
                          Dict([status |-> "healthy", timestamp |-> "isoformat"]))
    /\ UNCHANGED <<handler_vars, services, reqs, sessions, instances>>

\* Messages are lists of words.
Messages ==
    {<<>>, <<"hello">>, <<"Climate", "risk">>, <<"POPULATION">>,
     <<"urban", "planning">>, <<"Environment">>, <<"sustainability">>,
     <<"sustainability", "climate">>, <<"population", "planning">>,
     <<"CLIMATE">>, <<"air", "quality">>, <<"planning", "Environment">>}

\* str.lower, word by word
LowerWord(w) ==
    CASE w = "Climate" -> "climate"
      [] w = "POPULATION" -> "population"
      [] w = "Environment" -> "environment"
      [] w = "CLIMATE" -> "climate"
      [] OTHER -> w

Lower(m) == [k \in 1..Len(m) |-> LowerWord(m[k])]

\* `keyword in query_lower`
Contains(m, keyword) == \E k \in 1..Len(m) : m[k] = keyword

\* JSON bodies of the two chat endpoints: a message, with or without context
ChatBodies ==
    {[key \in {"message"} \cup opt |->
         IF key = "message" THEN m ELSE Dict([city |-> "New York"])] :
        m \in Messages, opt \in SUBSET {"context"}}

\* class ChatRequest(BaseModel)
ChatRequest(body) ==
    [message |-> body["message"],
     context |-> IF "context" \in DOMAIN body THEN body["context"] ELSE None]

\* request.context or {}
ContextOrEmpty(request) ==
    IF request.context.class = "NoneType" THEN Dict(<<>>) ELSE request.context

\* POST /api/chat: GeminiService.chat never raises, the handler wraps its
\* string
ChatWithGemini(body) ==
    /\ answered' =
           Served("chat", body, 200,
                  Dict([response |-> GeminiChat(services.gemini.api_key,
                                                ChatRequest(body).message,
                                                ChatRequest(body).context),
                        timestamp |-> "isoformat"]))
    /\ UNCHANGED <<handler_vars, services, reqs, sessions, instances>>

\* AIAnalysisService._process_user_query: the first keyword found decides
ProcessUserQuery(query) ==
    LET query_lower == Lower(query)
    IN  CASE Contains(query_lower, "climate") -> "climate risks"
          [] Contains(query_lower, "population") -> "population analysis"
          [] Contains(query_lower, "environment") -> "environmental analysis"
          [] Contains(query_lower, "planning") -> "planning recommendations"
          [] Contains(query_lower, "sustainability") -> "sustainability score"
          [] OTHER -> "what aspect would you like to explore"

\* _get_related_insights and _get_recommendations: three branches
RelatedTopic(query) ==
    LET query_lower == Lower(query)
    IN  CASE Contains(query_lower, "climate") -> "climate"
          [] Contains(query_lower, "population") -> "population"
          [] OTHER -> "general"

\* AIAnalysisService.generate_ai_chat_response: the answer is wrapped in
\* {success, data, message}
GenerateAIChatResponse(user_query, context) ==
    Dict([success |-> TRUE,
          data |-> Dict([query |-> user_query,
                         response |-> ProcessUserQuery(user_query),
                         related_insights |-> RelatedTopic(user_query),
                         recommendations |-> RelatedTopic(user_query),
                         data_sources |-> 4,
                         timestamp |-> "isoformat"]),
          message |-> "AI response generated successfully"])

\* POST /api/ai/chat: the service's mapping is the content of the response
AIChat(body) ==
    /\ answered' =
           Served("ai_chat", body, 200,
                  GenerateAIChatResponse(ChatRequest(body).message,
                                         ContextOrEmpty(ChatRequest(body))))
    /\ UNCHANGED <<handler_vars, services, reqs, sessions, instances>>

(***************************************************************************)
(* Handlers that wait for an upstream                                      *)
(***************************************************************************)
\* What the upstream does with one GET: the connection fails, it answers
\* with a status other than 200, it answers 200 with a body that cannot be
\* read as JSON, or it answers 200 with a readable body.
UpstreamEvents == {"transport_error", "status_other", "ok_unreadable", "ok_readable"}

\* the prefix of the message each fetch's except clause returns
AccessErrorMessage ==
    <<"Error accessing Earthdata Worldview", "Error accessing SEDAC data",
      "Error accessing GHSL data", "Error accessing WorldPop data",
      "Error accessing Copernicus data", "Error accessing WRI data">>

\* `data = await response.json()`: every fetch but the first reads the body
ReadsBody(i) == i # 1

\* the try block of fetch i: the value it returns or the exception it raises
FetchTry(i, lat, lng, event) ==
    CASE event = "transport_error" -> Exception("Cannot connect to host")
      [] event = "status_other" -> Fetch(i, lat, lng, "failure")
      [] event = "ok_unreadable" ->
            IF ReadsBody(i) THEN Exception("Expecting value")
                            ELSE Fetch(i, lat, lng, "success")
      [] event = "ok_readable" -> Fetch(i, lat, lng, "success")

\* fetch i as a whole: `except Exception as e` returns {'error': ...}
OfficialFetch(i, lat, lng, event) ==
    LET r == FetchTry(i, lat, lng, event)
    IN  IF IsException(r) THEN Dict([error |-> AccessErrorMessage[i]]) ELSE r

\* (mutant) a failure mapping answered as an error
HandlerOutcomeFailureAs500(d, raised) ==
    IF IsException(raised) THEN HttpError(Str(raised))
    ELSE IF HasKey(d, "error") THEN HttpError(d.items.error)
    ELSE [status |-> 200, body |-> d]

\* try: ... return JSONResponse(content=data)
\* except Exception as e: raise HTTPException(status_code=500, detail=str(e))
HandlerOutcome(d, raised) ==
    IF IsException(raised) THEN HttpError(Str(raised))
    ELSE [status |-> 200, body |-> d]

ClientSession(id) == [class |-> "ClientSession", id |-> id]

SlotFree(r) == reqs[r].pc \in {"idle", "done"}

\* One of the six single-source endpoints is entered and calls its fetch,
\* which opens a session of its own and sends the GET.  The service object
\* of the request that used the slot before is gone.
OfficialStart(r, i, loc) ==
    /\ SlotFree(r)
    /\ reqs' = [reqs EXCEPT ![r] =
                   [IdleSlot EXCEPT !.pc = "awaiting", !.endpoint = "official",
                                    !.source = i, !.lat = loc[1], !.lng = loc[2],
                                    !.opened = 1, !.session = r]]
    /\ sessions' = [sessions EXCEPT ![r] = "open"]
    /\ instances' = [instances EXCEPT ![r] = None]
    /\ UNCHANGED <<handler_vars, services, answered>>

\* The upstream's answer resumes the fetch; both `async with` blocks are
\* left and the handler answers.
OfficialAnswer(r, event) ==
    /\ reqs[r].pc = "awaiting"
    /\ reqs[r].endpoint = "official"
    /\ LET d == OfficialFetch(reqs[r].source, reqs[r].lat, reqs[r].lng, event)
       IN  reqs' = [reqs EXCEPT ![r].pc = "done",
                                ![r].event = event,
                                ![r].data = d,
                                ![r].response = HandlerOutcome(d, None)]
    /\ sessions' = [sessions EXCEPT ![r] = "closed"]
    /\ UNCHANGED <<handler_vars, services, instances, answered>>

\* (mutant) the handler enters the module-level landsat_service
HandlerUsesSingleton == FALSE

\* `async with LandsatService() as service`: the handler builds an instance
\* of its own
HandlerBuildsInstance == TRUE

\* self.session of the service object the handler of slot r works with
ServiceSession(r) ==
    IF HandlerBuildsInstance THEN instances[r] ELSE services.landsat.session

\* (mutant) the session kept on the module-level instance
SetServiceSessionOnSingleton(r, value) ==
    /\ services' = [services EXCEPT !.landsat.session = value]
    /\ UNCHANGED instances

\* self.session = <value>
SetServiceSession(r, value) ==
    IF HandlerBuildsInstance
    THEN /\ instances' = [instances EXCEPT ![r] = value]
         /\ UNCHANGED services
    ELSE /\ services' = [services EXCEPT !.landsat.session = value]
         /\ UNCHANGED instances

\* GET /api/landsat/satellite-imagery is entered: __init__ and __aenter__
LandsatEnter(r, loc) ==
    /\ SlotFree(r)
    /\ reqs' = [reqs EXCEPT ![r] =
                   [IdleSlot EXCEPT !.pc = "entered", !.endpoint = "landsat",
                                    !.lat = loc[1], !.lng = loc[2],
                                    !.opened = 1]]
    /\ sessions' = [sessions EXCEPT ![r] = "open"]
    /\ SetServiceSession(r, ClientSession(r))
    /\ UNCHANGED <<handler_vars, answered>>

Abs(x) == IF x < 0 THEN -x ELSE x

\* the divisor of lng_offset = radius_km / (111.0 * abs(lat) / 90.0),
\* times 90
LngOffsetDivisor(lat) == 111 * Abs(lat)

\* get_satellite_imagery: the bounding box is computed outside any try
\* block, and its division raises for a divisor of zero; then
\* search_satellite_data takes the session and sends the GET
LandsatCall(r) ==
    /\ reqs[r].pc = "entered"
    /\ IF LngOffsetDivisor(reqs[r].lat) = 0
       THEN /\ reqs' = [reqs EXCEPT ![r].pc = "exiting",
                                    ![r].raised = Exception("float division by zero")]
            /\ UNCHANGED <<sessions, services, instances>>
       ELSE IF ServiceSession(r).class = "NoneType"
       THEN /\ reqs' = [reqs EXCEPT ![r].pc = "awaiting",
                                    ![r].opened = @ + 1,
                                    ![r].session = r]
            /\ sessions' = [sessions EXCEPT ![r] = "open"]
            /\ SetServiceSession(r, ClientSession(r))
       ELSE /\ reqs' = [reqs EXCEPT ![r].pc = "awaiting",
                                    ![r].session = ServiceSession(r).id]
            /\ UNCHANGED <<sessions, services, instances>>
    /\ UNCHANGED <<handler_vars, answered>>

\* the scenes _process_landsat_data makes of a readable answer: the keys of a
\* processed scene and the bands of its assets
LandsatScenes ==
    <<Dict([id |-> "LC08_L2SP", datetime |-> "2024-01-01", cloud_cover |-> 5,
            assets |-> Dict([b \in {"red", "nir08", "lwir11", "qa_pixel"} |->
                                Dict([href |-> b, title |-> b])])])>>

\* the try block of search_satellite_data
LandsatSearchTry(session_state, event) ==
    CASE session_state # "open" -> Exception("Session is closed")
      [] event = "transport_error" -> Exception("Cannot connect to host")
      [] event = "status_other" -> Exception("API request failed with status")
      [] event = "ok_unreadable" -> Exception("Expecting value")
      [] event = "ok_readable" ->
            Dict([success |-> TRUE, data |-> List(LandsatScenes),
                  total_items |-> Len(LandsatScenes),
                  collection |-> "landsat-c2l2-sr", timestamp |-> "isoformat"])

\* search_satellite_data: the except clause returns the error mapping
LandsatSearch(session_state, event) ==
    LET r == LandsatSearchTry(session_state, event)
    IN  IF IsException(r)
        THEN Dict([error |-> Str(r), success |-> FALSE, data |-> None])
        ELSE r

\* the upstream's answer resumes search_satellite_data
LandsatAnswer(r, event) ==
    /\ reqs[r].pc = "awaiting"
    /\ reqs[r].endpoint = "landsat"
    /\ reqs' = [reqs EXCEPT ![r].pc = "exiting",
                            ![r].data = LandsatSearch(sessions[reqs[r].session], event)]
    /\ UNCHANGED <<handler_vars, services, sessions, instances, answered>>

\* the `async with` block is left, by return or by the exception:
\* __aexit__ closes self.session, then the handler answers
LandsatExit(r) ==
    /\ reqs[r].pc = "exiting"
    /\ sessions' = IF ServiceSession(r).class = "NoneType"
                   THEN sessions
                   ELSE [sessions EXCEPT ![ServiceSession(r).id] = "closed"]
    /\ reqs' = [reqs EXCEPT ![r].pc = "done",
                            ![r].response = HandlerOutcome(reqs[r].data, reqs[r].raised)]
    /\ UNCHANGED <<handler_vars, services, instances, answered>>

\* requests to the landsat endpoint: on the equator and in New York City
LandsatLocations == {<<0, -74>>, <<40, -74>>}

\* bodies of POST /api/chat sent while other requests are in flight
GeminiBodies == {[message |-> <<"hello">>]}

NextApp ==
    \/ Root
    \/ HealthCheck
    \/ \E body \in GeminiBodies : ChatWithGemini(body)
    \/ \E r \in Slots, i \in Sources : OfficialStart(r, i, <<40, -74>>)
    \/ \E r \in Slots, event \in UpstreamEvents : OfficialAnswer(r, event)
    \/ \E r \in Slots, loc \in LandsatLocations : LandsatEnter(r, loc)
    \/ \E r \in Slots : LandsatCall(r)
    \/ \E r \in Slots, event \in UpstreamEvents : LandsatAnswer(r, event)
    \/ \E r \in Slots : LandsatExit(r)

SpecApp == InitApp /\ [][NextApp]_vars

\* the two chat endpoints and the liveness endpoints
NextChat ==
    \/ Root
    \/ HealthCheck
    \/ \E body \in ChatBodies : ChatWithGemini(body)
    \/ \E body \in ChatBodies : AIChat(body)

SpecChat == InitApp /\ [][NextChat]_vars

(***************************************************************************)
(* Claims about get_comprehensive_urban_data and its endpoint              *)
(***************************************************************************)
Finished == {"Succeeded", "Failed"}

\* what fetch j itself can hand over for the request being served
OwnOutcomes(j) == {Fetch(j, coords[1], coords[2], o) : o \in Outcomes}

Raised == {i \in Sources : IsException(results[i])}
ReturnedFailure == {i \in Sources : HasKey(results[i], "error")}
Succeeded == {i \in Sources : HasKey(results[i], "source")}

AggregateKeys == {"coordinates", "timestamp", "sources", "summary"}

\* C1: whatever the six fetches do (succeed, return a failure, raise), the
\* call returns the full aggregate (coordinates, timestamp, sources,
\* summary) whose sources mapping has exactly the six declared keys, never
\* the bare {'error': ...} fallback.
C1_AggregateAlwaysFullyPopulated ==
    pc = "responded" =>
        /\ data.class = "dict"
        /\ DOMAIN data.items = AggregateKeys
        /\ DOMAIN data.items.sources = {SourceKeys[i] : i \in Sources}
        /\ Cardinality(DOMAIN data.items.sources) = N
        /\ data.items.coordinates = [lat |-> coords[1], lng |-> coords[2]]

\* C1 witness: a finished call in which all three kinds of outcome occurred.
C1_Witness ==
    /\ pc = "responded"
    /\ Raised # {} /\ ReturnedFailure # {} /\ Succeeded # {}
    /\ DOMAIN data.items = AggregateKeys

\* C2: one failing source never affects another.  A pending fetch is
\* touched only by its own completion, it can always still complete with
\* any of its own outcomes, a finished fetch holds one of its own outcomes,
\* and the entry recorded for source j is exactly what fetch j handed over.
C2_SiblingsUnaffected ==
    /\ [](/\ \A j \in Sources :
                task[j] \in Finished =>
                    \E o \in Outcomes : /\ results[j] = Fetch(j, coords[1], coords[2], o)
                                        /\ task[j] = Terminal(o)
          /\ \A j \in Sources :
                (pc = "gathering" /\ task[j] = "Pending") =>
                    /\ results[j] = None
                    /\ \A o \in Outcomes : ENABLED FinishFetch(j, o)
          /\ pc = "responded" =>
                \A j \in Sources : data.items.sources[SourceKeys[j]] = results[j])
    /\ [][\A i, j \in Sources :
             (i # j /\ task[i] = "Pending" /\ task'[i] = "Failed" /\ task[j] = "Pending")
                 => (task'[j] = "Pending" /\ results'[j] = results[j])]_vars

\* C2 witness: a finished call in which a fetch raised first, another
\* returned a failure next, and a later fetch still succeeded.
C2_Witness ==
    /\ pc = "responded"
    /\ \E i, j, k \in Sources :
         /\ done_order[1] = i /\ done_order[2] = j /\ done_order[N] = k
         /\ i \in Raised /\ j \in ReturnedFailure /\ k \in Succeeded
         /\ data.items.sources[SourceKeys[k]] = Fetch(k, coords[1], coords[2], "success")

\* position of a label or message in its declaration-order list
IndexIn(list, x) == CHOOSE i \in 1..Len(list) : list[i] = x

Ascending(list, declared) ==
    \A p, q \in 1..Len(list) :
        p < q => IndexIn(declared, list[p]) < IndexIn(declared, list[q])

\* C7: for every completion order, the i-th declared fetch's result is
\* bound to the i-th declared source name, and successful_sources and
\* failed_sources list their entries in declaration order.
C7_DeclarationOrder ==
    pc = "responded" =>
        /\ \A i \in Sources : data.items.sources[SourceKeys[i]] \in OwnOutcomes(i)
        /\ Ascending(data.items.summary.successful_sources, SourceLabel)
        /\ Ascending(data.items.summary.failed_sources, RaisedMessage)

\* C7 witness: the fetches completed in the reverse of declaration order,
\* with at least two successes and two raised exceptions to be ordered.
C7_Witness ==
    /\ pc = "responded"
    /\ done_order = <<6, 5, 4, 3, 2, 1>>
    /\ Len(data.items.summary.successful_sources) >= 2
    /\ Len(data.items.summary.failed_sources) >= 2
    /\ data.items.summary.successful_sources[1] = SourceLabel[Len(SourceLabel) - 4]

\* C8: within one call each fetch is started exactly once, goes from
\* Pending to exactly one of Succeeded or Failed, stays there, and never
\* re-enters Pending.
C8_AttemptedExactlyOnce ==
    /\ [](/\ \A i \in Sources :
                /\ attempts[i] = (IF task[i] = "Created" THEN 0 ELSE 1)
                /\ task[i] \in {"Created", "Pending"} \cup Finished
          /\ pc = "responded" => \A i \in Sources : attempts[i] = 1 /\ task[i] \in Finished)
    /\ [][pc = "gathering" =>
            \A i \in Sources :
                /\ task[i] \in Finished => (task'[i] = task[i] /\ results'[i] = results[i])
                /\ task[i] = "Pending" => task'[i] \in {"Pending"} \cup Finished
                /\ task'[i] = "Pending" => task[i] \in {"Created", "Pending"}
                /\ attempts'[i] > attempts[i] => task[i] = "Created"]_vars

\* C8 witness: a finished call in which some fetch failed and was not retried.
C8_Witness ==
    /\ pc = "responded"
    /\ \E i \in Sources : task[i] = "Failed" /\ attempts[i] = 1
    /\ \E i \in Sources : task[i] = "Succeeded" /\ attempts[i] = 1

\* C9: when all six fetches succeed, successful_sources holds the six
\* source names, failed_sources is empty, total_sources is 6 and every
\* entry of sources is that fetch's success payload.
C9_AllSucceed ==
    (pc = "responded" /\ \A i \in Sources : task[i] = "Succeeded") =>
        /\ Len(data.items.summary.successful_sources) = 6
        /\ data.items.summary.successful_sources = SourceLabel
        /\ data.items.summary.failed_sources = <<>>
        /\ data.items.summary.total_sources = 6
        /\ \A i \in Sources :
              data.items.sources[SourceKeys[i]] = Fetch(i, coords[1], coords[2], "success")
        /\ response.status = 200 /\ response.body = data

\* C9 witness: a finished call whose six fetches all succeeded.
C9_Witness ==
    /\ pc = "responded"
    /\ \A i \in Sources : task[i] = "Succeeded" /\ HasKey(results[i], "source")
    /\ Len(data.items.summary.successful_sources) = 6

\* is the entry stored for source i a Failure carrying a non-empty message?
FailureEntry(i) ==
    LET entry == data.items.sources[SourceKeys[i]]
    IN  HasKey(entry, "error") /\ entry.items.error # ""

C6_SummaryAccountsForAll ==
    pc = "responded" =>
        LET summary == data.items.summary
        IN  /\ summary.total_sources = N
            /\ \A i \in Sources :
                  task[i] = "Succeeded" <=>
                      \E p \in 1..Len(summary.successful_sources) :
                          summary.successful_sources[p] = SourceLabel[i]
            /\ Len(summary.failed_sources) =
                  Cardinality({i \in Sources : task[i] = "Failed"})
            /\ Len(summary.successful_sources) + Len(summary.failed_sources) = N

(***************************************************************************)
(* Claims about POST /api/ai/analyze-urban-data                            *)
(***************************************************************************)
\* C10 (as claimed): every body that carries coordinates [lat, lng], with
\* analysis_type and context optional, is answered 200 with the structured
\* analysis, never 500.
C10_AnalyzeAnswers200 ==
    (ai_pc = "responded" /\ Len(ai_body["coordinates"]) = 2) =>
        /\ ai_response.status = 200
        /\ HasKey(ai_response.body, "success")

(***************************************************************************)
(* Claims about fan-out, fan-in and termination of the aggregator          *)
(***************************************************************************)
\* C15: the aggregator starts all N fetches without waiting for any of them
\* to finish: the next fetch in declaration order can start while every
\* earlier fetch is still Pending, so all six can be Pending together.
C15_FanOutWithoutWaiting ==
    \A j \in Sources :
        (/\ pc = "gathering"
         /\ task[j] = "Created"
         /\ \A i \in Sources : i < j => task[i] = "Pending")
            => ENABLED StartFetch(j)

\* C15 witness: all six fetches of one call are Pending at the same time.
C15_Witness ==
    /\ pc = "gathering"
    /\ \A i \in Sources : task[i] = "Pending" /\ attempts[i] = 1
    /\ done_order = <<>>

\* C17: the aggregator applies no timeout and no cancellation of its own.
\* Once all six fetches have completed the call eventually returns, and a
\* Pending fetch leaves Pending only by its own completion: the call never
\* returns over it and never replaces its result.
C17_NoTimeoutNoCancellation ==
    /\ (pc = "gathering" /\ GatherReady(task)) ~> (pc = "responded")
    /\ [][\A i \in Sources :
             (task[i] = "Pending" /\ task'[i] # "Pending") =>
                 /\ pc' = "gathering"
                 /\ done_order' = Append(done_order, i)
                 /\ results'[i] \in OwnOutcomes(i)]_vars

\* C17 witness: five fetches are done and the call is still waiting for the
\* sixth, which is pending.
C17_Witness ==
    /\ pc = "gathering"
    /\ Len(done_order) = N - 1
    /\ \E i \in Sources : task[i] = "Pending" /\ results[i] = None
    /\ data = None /\ response = None

\* every fetch of the call being served has finished
AllTerminal == \A i \in DOMAIN task : task[i] \in Finished

\* C16: fan-in safety of both aggregators.  The aggregate of
\* get_comprehensive_urban_data and of NASAService.get_comprehensive_data
\* exists, and a 200 response carrying it is returned, only when every fetch
\* of the call is terminal; the step that constructs it starts from a state
\* in which all of them were already terminal and holds one entry per fetch.
C16_FanInSafety ==
    /\ [](data # None => AllTerminal)
    /\ []((pc = "responded" /\ response # None) =>
              /\ AllTerminal /\ DOMAIN task = Sources
              /\ DOMAIN data.items.sources = {SourceKeys[i] : i \in Sources})
    /\ []((pc = "nasa_responded" /\ response.status = 200) =>
              /\ AllTerminal /\ DOMAIN task = NASASources
              /\ response.body.items.nasa_data = data
              /\ \A i \in NASASources :
                     data.items[NASAKeys[i]] = Normalise(results[i]))
    /\ [][(data' # data /\ data' # None) =>
              /\ AllTerminal
              /\ UNCHANGED <<task, results, done_order>>]_vars

\* C16 witness: a call of NASAService.get_comprehensive_data has returned
\* after its four fetches finished, one of them by raising.
C16_Witness ==
    /\ pc = "nasa_responded"
    /\ response.status = 200
    /\ AllTerminal
    /\ \E i \in NASASources : task[i] = "Failed"
    /\ \E i \in NASASources : task[i] = "Succeeded"

(***************************************************************************)
(* Claims about the handlers                                               *)
(***************************************************************************)
\* the requests of the slots that have been answered
Done == {r \in Slots : reqs[r].pc = "done"}

\* the requests of the slots that are being served
InFlight == {r \in Slots : reqs[r].pc \in {"entered", "awaiting", "exiting"}}

AnsweredBy(endpoint) == answered.class = "served" /\ answered.endpoint = endpoint

\* C11 (as claimed): every POST /api/ai/chat with a string message is
\* answered 200 with a body that has `response` and `timestamp` as top-level
\* string fields.
C11_AIChatBodyShape ==
    AnsweredBy("ai_chat") =>
        /\ answered.response.status = 200
        /\ HasKey(answered.response.body, "response")
        /\ HasKey(answered.response.body, "timestamp")

\* C12: a handler answers 500, with detail str(e), exactly when an exception
\* e escaped the service call inside its try block; otherwise it answers 200
\* with the service's result as the body, also when that result is a failure
\* mapping with an 'error' key.
C12_Http500IffExceptionEscapes ==
    \A r \in Done :
        /\ reqs[r].response.status = 500 <=> IsException(reqs[r].raised)
        /\ IsException(reqs[r].raised) =>
               reqs[r].response.body = Dict([detail |-> Str(reqs[r].raised)])
        /\ ~IsException(reqs[r].raised) =>
               /\ reqs[r].response.status = 200
               /\ reqs[r].response.body = reqs[r].data
        /\ HasKey(reqs[r].data, "error") => reqs[r].response.status = 200

\* C12 witness: one request was answered 500 for an escaped exception and
\* another was answered 200 with a failure mapping.
C12_Witness ==
    /\ \E r \in Done : reqs[r].response = HttpError("float division by zero")
    /\ \E r \in Done : /\ reqs[r].response.status = 200
                       /\ HasKey(reqs[r].response.body, "error")

\* C13: GET /health and GET / can be served in every reachable state, they
\* answer 200 with status 'healthy' and a timestamp, and serving them changes
\* neither a request in flight, nor a session, nor a service.
C13_LivenessAlways200 ==
    /\ ENABLED HealthCheck
    /\ ENABLED Root
    /\ ~ENABLED (HealthCheck /\ ~UNCHANGED <<reqs, sessions, instances, services, env>>)
    /\ ~ENABLED (Root /\ ~UNCHANGED <<reqs, sessions, instances, services, env>>)
    /\ (AnsweredBy("health") \/ AnsweredBy("root")) =>
           /\ answered.response.status = 200
           /\ answered.response.body.items.status = "healthy"
           /\ HasKey(answered.response.body, "timestamp")

\* C13 witness: the health check was answered with no credentials set, while
\* one upstream call was pending and another request had failed.
C13_Witness ==
    /\ AnsweredBy("health")
    /\ env = UnsetEnv
    /\ \E r \in Slots : reqs[r].pc = "awaiting"
    /\ \E r \in Done : HasKey(reqs[r].data, "error")

\* C14: in a process started without any credential variable, the services
\* are constructed, POST /api/chat is answered 200 with the string
\* 'Error: Gemini API key not configured', and every single-source fetch
\* of OfficialNASAService runs to a mapping without raising, with the same
\* result as when the variables are set.
C14_MissingCredentialsDegrade ==
    env = UnsetEnv =>
        /\ services = ConstructServices(UnsetEnv)
        /\ services.official.earthdata_token = None
        /\ services.gemini.api_key = ""
        /\ AnsweredBy("chat") =>
               /\ answered.response.status = 200
               /\ answered.response.body.items.response =
                      "Error: Gemini API key not configured"
        /\ \A r \in Done :
               reqs[r].endpoint = "official" =>
                   /\ ~IsException(reqs[r].raised)
                   /\ reqs[r].response.status = 200
                   /\ reqs[r].data = OfficialFetch(reqs[r].source, reqs[r].lat,
                                                   reqs[r].lng, reqs[r].event)

\* C14 witness: without credentials the chat was answered and a
\* single-source fetch succeeded.
C14_Witness ==
    /\ env = UnsetEnv
    /\ AnsweredBy("chat")
    /\ \E r \in Done : reqs[r].endpoint = "official" /\ HasKey(reqs[r].data, "source")

\* C18 (as claimed): a single-source fetch never raises, every result has
\* exactly one of 'error' and 'source', a transport error, a status other
\* than 200 and an unreadable body give {'error': <non-empty message>}, and a
\* success mapping is returned only for a 200 with a readable body.
C18_FetchBoundary ==
    \A r \in Done :
        reqs[r].endpoint = "official" =>
            /\ ~IsException(reqs[r].raised)
            /\ HasKey(reqs[r].data, "error") # HasKey(reqs[r].data, "source")
            /\ HasKey(reqs[r].data, "error") => reqs[r].data.items.error # ""
            /\ reqs[r].event # "ok_readable" => HasKey(reqs[r].data, "error")
            /\ HasKey(reqs[r].data, "source") =>
                   /\ reqs[r].event = "ok_readable"
                   /\ reqs[r].data.items.status = "success"

\* C19: a request served through `async with LandsatService()` opens exactly
\* one session, works with that session only, the session stays open for as
\* long as the request is in flight, whatever other requests do, and it is
\* closed once the handler has finished, by return or by exception; two
\* requests in flight never use the same session.
C19_SessionPerRequest ==
    /\ \A r \in Slots :
           reqs[r].endpoint = "landsat" =>
               /\ reqs[r].opened = 1
               /\ r \in InFlight =>
                      /\ sessions[r] = "open"
                      /\ ServiceSession(r) = ClientSession(r)
               /\ reqs[r].pc = "awaiting" => reqs[r].session = r
               /\ r \in Done => sessions[r] = "closed"
    /\ \A r1, r2 \in InFlight :
           (r1 # r2 /\ reqs[r1].session # 0) => reqs[r1].session # reqs[r2].session

\* C19 witness: one landsat request has finished by exception with its
\* session closed while another is waiting for the upstream on its own open
\* session.
C19_Witness ==
    \E r1, r2 \in Slots :
        /\ reqs[r1].endpoint = "landsat" /\ r1 \in Done
        /\ IsException(reqs[r1].raised) /\ sessions[r1] = "closed"
        /\ reqs[r2].endpoint = "landsat" /\ reqs[r2].pc = "awaiting"
        /\ sessions[r2] = "open"

\* C20: whatever requests were served or are in flight, the module-level
\* instances are as they were built at process start: configuration and
\* credentials unchanged, analysis_cache empty, the session of the four
\* session-carrying singletons None.
C20_SingletonsUnchanged ==
    /\ services = ConstructServices(env)
    /\ services.ai_analysis.analysis_cache = {}
    /\ \A name \in SessionServices : services[name].session = None

\* C20 witness: both slots have served a landsat request, one of them by
\* exception, and a chat was answered.
C20_Witness ==
    /\ AnsweredBy("chat")
    /\ \A r \in Slots : r \in Done /\ reqs[r].endpoint = "landsat"
    /\ \E r \in Slots : IsException(reqs[r].raised)
    /\ \E r \in Slots : HasKey(reqs[r].data, "success")
    /\ services = ConstructServices(env)

(***************************************************************************)
(* Claims about NASAService.get_comprehensive_data and POST /api/analyze   *)
(***************************************************************************)
NASAAggregateKeys ==
    {"coordinates", "timestamp", "status"} \cup {NASAKeys[i] : i \in NASASources}

\* C21: get_comprehensive_data is best-effort.  Once its four fetches have
\* finished, whatever each of them did, the call can return, and what it
\* returns has exactly the keys temperature, air_quality, vegetation,
\* precipitation, coordinates, timestamp and status; the entry of a fetch
\* that returned is its payload and the entry of a fetch that raised is
\* {'error': <its message>}, whatever the other three did.
C21_NASABestEffort ==
    /\ (pc = "nasa_gathering" /\ NASAGatherReady(task)) => ENABLED NASARespond
    /\ (pc = "nasa_responded" /\ data # None) =>
           /\ data.class = "dict"
           /\ DOMAIN data.items = NASAAggregateKeys
           /\ data.items.coordinates = coords
           /\ \A i \in NASASources :
                  data.items[NASAKeys[i]] =
                      IF task[i] = "Succeeded"
                      THEN NASAFetch(i, coords[1], coords[2], "success")
                      ELSE Dict([error |-> NASARaisedMessage[i]])

\* C21 witness: a call returned after two of its fetches raised and two
\* returned.
C21_Witness ==
    /\ pc = "nasa_responded"
    /\ data # None
    /\ Cardinality({i \in NASASources : task[i] = "Failed"}) = 2
    /\ Cardinality({i \in NASASources : HasKey(data.items[NASAKeys[i]], "source")}) = 2

\* C22 (as claimed): for every latitude in -90..90, the equator included,
\* get_satellite_imagery returns a mapping and does not raise, so a request
\* to GET /api/landsat/satellite-imagery is never answered 500.
C22_EveryLatitudeServed ==
    \A r \in Done :
        (reqs[r].endpoint = "landsat" /\ reqs[r].lat \in -90..90) =>
            /\ ~IsException(reqs[r].raised)
            /\ reqs[r].data.class = "dict"
            /\ reqs[r].response.status = 200

(***************************************************************************)
(* Part 5: service methods that await their fetches one after another      *)
(***************************************************************************)
\* the truth value of result.get("success")
Succeeds(result) == HasKey(result, "success") /\ result.items.success = TRUE

\* the mapping the except clause of a service method returns
ErrorResult(e) == Dict([error |-> Str(e), success |-> FALSE, data |-> None])

\* s[:n]
Take(s, n) == SubSeq(s, 1, IF Len(s) < n THEN Len(s) ELSE n)

\* what an action of this part leaves alone
outside_call ==
    <<agg_vars, ai_vars, analyze_body, env, services, reqs, sessions,
      instances, answered>>

\* a service method is called when no other call is in progress
CallFree == call.pc \in {"idle", "returned"}

(***************************************************************************)
(* CopernicusService                                                       *)
(***************************************************************************)
\* the `value` list of a readable answer of the catalogue; a name is the
\* sequence of its lower-case words
CopernicusValue ==
    <<[Id |-> "id-1", Name |-> <<"corine", "land", "cover">>],
      [Id |-> "id-2", Name |-> <<"sentinel-3", "ocean", "temperature">>]>>

\* _process_products_data: the keys of a processed product are lower-case
ProcessProductsData(value) ==
    Dict([success |-> TRUE,
          data |-> List([k \in 1..Len(value) |->
                            Dict([id |-> value[k].Id, name |-> value[k].Name])]),
          total_products |-> Len(value),
          timestamp |-> "isoformat"])

\* the try block of get_available_products
GetAvailableProductsTry(event) ==
    CASE event = "transport_error" -> Exception("Cannot connect to host")
      [] event = "status_other" -> Exception("API request failed with status")
      [] event = "ok_unreadable" -> Exception("Expecting value")
      [] event = "ok_readable" -> ProcessProductsData(CopernicusValue)

\* get_available_products: the except clause returns the error mapping
GetAvailableProducts(event) ==
    LET r == GetAvailableProductsTry(event)
    IN  IF IsException(r) THEN ErrorResult(r) ELSE r

\* the four sub-fetches of the comprehensive call, in the order of the code
CopernicusFetches == <<"land_use", "climate", "atmospheric", "marine">>
CopernicusOrder == 1..Len(CopernicusFetches)

\* the terms each sub-fetch looks for in a product's name
CopernicusTerms ==
    <<{"land", "cover", "use", "lc", "corine"},
      {"temperature", "climate", "weather", "meteorology"},
      {"atmospheric", "air", "quality", "aerosol", "pollution", "sentinel-5p"},
      {"marine", "ocean", "sea", "coastal", "water", "sentinel-3"}>>

\* the key under which each sub-fetch stores its insights
CopernicusInsights ==
    <<"recommendations", "climate_insights", "air_quality_insights",
      "coastal_insights">>

\* product.get("Name", "").lower()
ProductName(product) == DictGet(product, "Name", <<>>)

\* the products whose name holds one of the terms
RelevantProducts(products, terms) ==
    SelectSeq(products,
              LAMBDA p : \E term \in terms : Contains(ProductName(p), term))

\* the analysis get_land_use_data, get_climate_data, get_atmospheric_data
\* and get_marine_data make of the products of a successful catalogue query
CopernicusAnalysis(k, lat, lng, products) ==
    LET found == RelevantProducts(DictGet(products, "data", List(<<>>)).items,
                                  CopernicusTerms[k])
    IN  Dict([success |-> TRUE,
              data |-> Dict([location |-> <<lat, lng>>,
                             available_products |-> List(Take(found, 5)),
                             analysis_timestamp |-> "isoformat"]
                            @@ (CopernicusInsights[k] :> Len(found))),
              message |-> Len(found)])

\* get_land_use_data, get_climate_data, get_atmospheric_data and
\* get_marine_data: a failed catalogue query is returned as it is
CopernicusSubFetch(k, lat, lng, event) ==
    LET products == GetAvailableProducts(event)
    IN  IF ~Succeeds(products)
        THEN products
        ELSE CopernicusAnalysis(k, lat, lng, products)

\* len(x.get("data", {}).get("available_products", [])) of one sub-fetch
\* whose data is a mapping
AvailableCount(result) ==
    Len(DictGet(DictGet(result, "data", Dict(<<>>)),
                "available_products", List(<<>>)).items)

RECURSIVE TotalProducts(_)
TotalProducts(got) ==
    IF got = <<>> THEN 0
    ELSE AvailableCount(Head(got)) + TotalProducts(Tail(got))

\* the summary of a variant that reads a missing data as an empty mapping
GenerateEnvironmentalSummaryOrEmpty(got) ==
    Dict([total_products |->
              TotalProducts(SelectSeq(got, LAMBDA r :
                  DictGet(r, "data", Dict(<<>>)).class = "dict")),
          data_categories |-> CopernicusFetches])

\* _generate_environmental_summary: .get on a data that is None raises
GenerateEnvironmentalSummary(got) ==
    IF \E k \in 1..Len(got) : DictGet(got[k], "data", Dict(<<>>)).class = "NoneType"
    THEN Exception("'NoneType' object has no attribute 'get'")
    ELSE Dict([total_products |-> TotalProducts(got),
               data_categories |-> CopernicusFetches])

\* get_comprehensive_environmental_data once its four sub-fetches returned
ComprehensiveEnvironmentalData(lat, lng, got) ==
    LET summary == GenerateEnvironmentalSummary(got)
    IN  IF IsException(summary)
        THEN ErrorResult(summary)
        ELSE Dict([success |-> TRUE,
                   data |-> Dict([location |-> <<lat, lng>>,
                                  environmental_data |->
                                      Dict([k \in {CopernicusFetches[j] : j \in CopernicusOrder} |->
                                               LET j == CHOOSE j \in CopernicusOrder : CopernicusFetches[j] = k
                                               IN  DictGet(got[j], "data", Dict(<<>>))]),
                                  analysis_timestamp |-> "isoformat",
                                  summary |-> summary]),
                   message |-> "Comprehensive environmental data retrieved from Copernicus services"])

\* get_comprehensive_environmental_data is called: it awaits get_land_use_data
CopernicusCall(loc) ==
    /\ CallFree
    /\ call' = [op |-> "get_comprehensive_environmental_data", pc |-> "awaiting",
                args |-> loc, asked |-> <<CopernicusFetches[1]>>,
                got |-> <<>>, ret |-> None, response |-> None]
    /\ UNCHANGED outside_call

\* the catalogue answers the sub-fetch in progress: the call awaits the next
\* sub-fetch or, after the fourth, combines the four and returns
CopernicusAnswer(event) ==
    /\ call.op = "get_comprehensive_environmental_data"
    /\ call.pc = "awaiting"
    /\ LET k == Len(call.got) + 1
           got == Append(call.got,
                         CopernicusSubFetch(k, call.args[1], call.args[2], event))
       IN  call' =
               IF k < Len(CopernicusFetches)
               THEN [call EXCEPT !.got = got,
                                 !.asked = Append(@, CopernicusFetches[k + 1])]
               ELSE [call EXCEPT !.got = got, !.pc = "returned",
                                 !.ret = ComprehensiveEnvironmentalData(
                                             call.args[1], call.args[2], got)]
    /\ UNCHANGED outside_call

NextCopernicus ==
    \/ \E loc \in Locations : CopernicusCall(loc)
    \/ \E event \in UpstreamEvents : CopernicusAnswer(event)

SpecCopernicus == Init /\ [][NextCopernicus]_vars

(***************************************************************************)
(* Claims about CopernicusService.get_comprehensive_environmental_data     *)
(***************************************************************************)
\* the comprehensive call in progress or returned
CopernicusCalled == call.op = "get_comprehensive_environmental_data"

\* C23: get_comprehensive_environmental_data is all-or-nothing.  It awaits
\* land use, climate, atmospheric and marine in this order, each only after
\* the one before it returned; a failed sub-fetch is {success false, data
\* None}; the call returns success true exactly when all four succeeded and
\* otherwise returns {success false, data None}, never a partial aggregate.
C23_AllOrNothing ==
    CopernicusCalled =>
        /\ call.asked = Take(CopernicusFetches, Len(call.asked))
        /\ Len(call.asked) = Len(call.got) + (IF call.pc = "awaiting" THEN 1 ELSE 0)
        /\ \A k \in 1..Len(call.got) :
               ~Succeeds(call.got[k]) => call.got[k].items.data = None
        /\ call.pc = "returned" =>
               /\ Len(call.got) = Len(CopernicusFetches)
               /\ Succeeds(call.ret) <=> \A k \in CopernicusOrder : Succeeds(call.got[k])
               /\ ~Succeeds(call.ret) =>
                      /\ call.ret.items.success = FALSE
                      /\ call.ret.items.data = None

\* C23 witness: the call returned a failure after exactly one sub-fetch, the
\* third, had failed.
C23_Witness ==
    /\ CopernicusCalled
    /\ call.pc = "returned"
    /\ {k \in CopernicusOrder : ~Succeeds(call.got[k])} = {3}
    /\ call.ret.items.success = FALSE
    /\ call.ret.items.data = None

(***************************************************************************)
(* WorldPopService                                                         *)
(***************************************************************************)
\* the three figures a yearly record carries
PopulationMetrics == {"total_population", "population_density", "urban_percentage"}

\* JSON bodies of a readable answer of the WorldPop API: a mapping with all,
\* some or none of the figures, null, an empty list, a list of such mappings
WorldPopJson ==
    {Dict(<<>>),
     Dict([total_population |-> 0, population_density |-> 2, urban_percentage |-> 3]),
     Dict([total_population |-> 3, population_density |-> 2]),
     Dict([total_population |-> 4, population_density |-> 3, urban_percentage |-> 2]),
     None,
     List(<<>>),
     List(<<Dict([total_population |-> 7, population_density |-> 1,
                  urban_percentage |-> 0])>>)}

\* what the upstream does with one request
WorldPopAnswers ==
    {[event |-> e, json |-> None] : e \in UpstreamEvents \ {"ok_readable"}}
        \cup {[event |-> "ok_readable", json |-> j] : j \in WorldPopJson}

\* _process_population_data: a figure the answer does not carry is 0
ProcessPopulationData(raw_data, country_code, year) ==
    LET item == IF raw_data.class = "list" /\ Len(raw_data.items) > 0
                THEN raw_data.items[1]
                ELSE IF raw_data.class = "dict" THEN raw_data
                ELSE Dict(<<>>)
    IN  Dict([success |-> TRUE,
              data |-> Dict([k \in PopulationMetrics |-> DictGet(item, k, 0)]
                            @@ [country |-> country_code, year |-> year,
                                data_sources |-> List(<<>>)]),
              message |-> "Population data retrieved"])

\* the try block of get_population_data
GetPopulationDataTry(country_code, year, answer) ==
    CASE answer.event = "transport_error" -> Exception("Cannot connect to host")
      [] answer.event = "status_other" -> Exception("API request failed with status")
      [] answer.event = "ok_unreadable" -> Exception("Expecting value")
      [] answer.event = "ok_readable" ->
            ProcessPopulationData(answer.json, country_code, year)

\* get_population_data: the except clause returns the error mapping
GetPopulationData(country_code, year, answer) ==
    LET r == GetPopulationDataTry(country_code, year, answer)
    IN  IF IsException(r) THEN ErrorResult(r) ELSE r

\* the step of range(start_year, end_year + 1, 5)
YearStep == 5

\* list(range(start_year, end_year, 5)): a range that stops before end_year
RECURSIVE YearsBeforeEnd(_, _)
YearsBeforeEnd(start_year, end_year) ==
    IF start_year >= end_year THEN <<>>
    ELSE <<start_year>> \o YearsBeforeEnd(start_year + YearStep, end_year)

\* list(range(start_year, end_year + 1, 5))
RECURSIVE Years(_, _)
Years(start_year, end_year) ==
    IF start_year >= end_year + 1 THEN <<>>
    ELSE <<start_year>> \o Years(start_year + YearStep, end_year)

\* a / b of Python
Divide(a, b) ==
    IF b = 0 THEN Exception("division by zero") ELSE [class |-> "ratio", num |-> a, den |-> b]

\* a number with two decimals, held as its count of hundredths
Rounded(hundredths) == [class |-> "float", hundredths |-> hundredths]

\* round(q * 100, 2) for a quotient q; the figures of WorldPopJson produce
\* no tie
RoundPercent(q) == Rounded((2 * 10000 * q.num + q.den) \div (2 * q.den))

\* the growth of a figure computed without looking at the baseline
GrowthPercentUnguarded(first, last) ==
    LET q == Divide(last - first, first)
    IN  IF IsException(q) THEN q ELSE RoundPercent(q)

\* ((last - first) / first) * 100 if first > 0 else 0, rounded
GrowthPercent(first, last) ==
    IF first > 0
    THEN LET q == Divide(last - first, first)
         IN  IF IsException(q) THEN q ELSE RoundPercent(q)
    ELSE Rounded(0)

\* the entry of trend_data made from the result of one successful year
TrendEntry(year, year_data) ==
    [k \in PopulationMetrics |->
        DictGet(DictGet(year_data, "data", Dict(<<>>)), k, 0)]
    @@ [year |-> year]

\* trend_data: the entries of the years whose fetch succeeded, in order
RECURSIVE TrendData(_, _)
TrendData(years, got) ==
    IF got = <<>> THEN <<>>
    ELSE (IF Succeeds(Head(got)) THEN <<TrendEntry(Head(years), Head(got))>> ELSE <<>>)
         \o TrendData(Tail(years), Tail(got))

\* the growth metrics of get_urban_growth_trends
GrowthMetrics(trend_data) ==
    IF Len(trend_data) >= 2
    THEN [k \in PopulationMetrics |->
             GrowthPercent(trend_data[1][k], trend_data[Len(trend_data)][k])]
    ELSE [k \in PopulationMetrics |-> Rounded(0)]

\* get_urban_growth_trends once every year was fetched: an exception of the
\* arithmetic is caught by the except clause of the method
UrbanGrowthTrends(country_code, start_year, end_year, got) ==
    LET trend_data == TrendData(Years(start_year, end_year), got)
        growth == GrowthMetrics(trend_data)
    IN  IF \E k \in PopulationMetrics : IsException(growth[k])
        THEN ErrorResult(growth[CHOOSE k \in PopulationMetrics : IsException(growth[k])])
        ELSE Dict([success |-> TRUE,
                   data |-> Dict([country |-> country_code,
                                  period |-> <<start_year, end_year>>,
                                  trend_data |-> List(trend_data),
                                  growth_metrics |->
                                      Dict([k \in PopulationMetrics |-> growth[k].hundredths]),
                                  analysis_timestamp |-> "isoformat"]),
                   message |-> "Urban growth trends"])

\* the periods requested: aligned and not aligned with the step, a single
\* year, an end before the start
Periods == {<<2000, 2012>>, <<2003, 2013>>, <<2003, 2004>>, <<2005, 2005>>, <<2005, 2004>>}

\* GET /api/worldpop/urban-growth-trends: the handler calls the method, which
\* requests the first year or, when the range is empty, returns at once
GrowthTrendsRequest(country_code, period) ==
    /\ CallFree
    /\ LET years == Years(period[1], period[2])
           frame == [op |-> "get_urban_growth_trends", pc |-> "awaiting",
                     args |-> <<country_code, period[1], period[2]>>,
                     asked |-> <<>>, got |-> <<>>, ret |-> None,
                     response |-> None]
       IN  call' =
               IF years = <<>>
               THEN LET ret == UrbanGrowthTrends(country_code, period[1], period[2], <<>>)
                    IN  [frame EXCEPT !.pc = "returned", !.ret = ret,
                                      !.response = [status |-> 200, body |-> ret]]
               ELSE [frame EXCEPT !.asked = <<years[1]>>]
    /\ UNCHANGED outside_call

\* the upstream answers the year in progress: the method requests the next
\* year or, after the last, computes the growth and returns
GrowthTrendsAnswer(answer) ==
    /\ call.op = "get_urban_growth_trends"
    /\ call.pc = "awaiting"
    /\ LET years == Years(call.args[2], call.args[3])
           k == Len(call.got) + 1
           got == Append(call.got, GetPopulationData(call.args[1], years[k], answer))
       IN  call' =
               IF k < Len(years)
               THEN [call EXCEPT !.got = got, !.asked = Append(@, years[k + 1])]
               ELSE LET ret == UrbanGrowthTrends(call.args[1], call.args[2],
                                                 call.args[3], got)
                    IN  [call EXCEPT !.got = got, !.pc = "returned", !.ret = ret,
                                     !.response = [status |-> 200, body |-> ret]]
    /\ UNCHANGED outside_call

NextWorldPop ==
    \/ \E period \in Periods : GrowthTrendsRequest("USA", period)
    \/ \E answer \in WorldPopAnswers : GrowthTrendsAnswer(answer)

SpecWorldPop == Init /\ [][NextWorldPop]_vars

(***************************************************************************)
(* Claims about WorldPopService.get_urban_growth_trends                    *)
(***************************************************************************)
TrendsCalled == call.op = "get_urban_growth_trends"
TrendsReturned == TrendsCalled /\ call.pc = "returned"

\* positions of the yearly fetches that succeeded
SucceededYears == {k \in 1..Len(call.got) : Succeeds(call.got[k])}

\* the figure m that the k-th yearly fetch returned
Figure(k, m) == call.got[k].items.data.items[m]

\* g is the percentage 100 * (last - first) / first to the nearest hundredth
NearestPercent(g, first, last) ==
    2 * Abs(g * first - 10000 * (last - first)) <= first

\* C25: get_urban_growth_trends never divides by zero and never fails for
\* lack of data.  Whatever the yearly fetches did, it returns success true
\* and the handler answers 200; each growth percentage is the rounded growth
\* between the first and the last successful year when at least two years
\* succeeded and the first year's figure is greater than 0, and is 0
\* otherwise, so also when every yearly fetch failed.
C25_GrowthNeverDividesByZero ==
    TrendsReturned =>
        /\ Succeeds(call.ret)
        /\ call.response = [status |-> 200, body |-> call.ret]
        /\ LET growth == call.ret.items.data.items.growth_metrics.items
               trend == call.ret.items.data.items.trend_data.items
               ok == SucceededYears
           IN  /\ Len(trend) = Cardinality(ok)
               /\ \A m \in PopulationMetrics :
                      IF Cardinality(ok) >= 2
                      THEN LET first == Figure(CHOOSE k \in ok : \A j \in ok : k <= j, m)
                               last == Figure(CHOOSE k \in ok : \A j \in ok : k >= j, m)
                           IN  IF first > 0
                               THEN NearestPercent(growth[m], first, last)
                               ELSE growth[m] = 0
                      ELSE growth[m] = 0

\* C25 witness: a call returned success after its first successful year had
\* a total population of 0 and its last one a positive one; the population
\* growth is 0 while the density grew by 50.00 percent.
C25_Witness ==
    /\ TrendsReturned
    /\ Succeeds(call.ret)
    /\ Cardinality(SucceededYears) >= 2
    /\ call.ret.items.data.items.trend_data.items[1].total_population = 0
    /\ call.ret.items.data.items.trend_data.items[
           Cardinality(SucceededYears)].total_population > 0
    /\ call.ret.items.data.items.growth_metrics.items.total_population = 0
    /\ call.ret.items.data.items.growth_metrics.items.population_density = 5000

\* C26: get_urban_growth_trends requests exactly the years start_year,
\* start_year + 5, ... that are <= end_year, each once, in increasing order
\* and one at a time: a year is requested only after the year before it was
\* answered.  trend_data holds exactly the years whose fetch succeeded, in
\* increasing order; a failed year does not stop the later ones; an end
\* before the start yields no request.
C26_YearsInOrder ==
    TrendsCalled =>
        LET start_year == call.args[2]
            end_year == call.args[3]
            positions == [k \in 1..Len(call.got) |-> k]
            succeeded == SelectSeq(positions, LAMBDA k : Succeeds(call.got[k]))
        IN  /\ \A k \in 1..Len(call.asked) :
                   /\ call.asked[k] = start_year + 5 * (k - 1)
                   /\ call.asked[k] <= end_year
            /\ Len(call.asked) = Len(call.got) + (IF call.pc = "awaiting" THEN 1 ELSE 0)
            /\ call.pc = "returned" =>
                   /\ {call.asked[k] : k \in 1..Len(call.asked)} =
                          {y \in start_year..end_year : (y - start_year) % 5 = 0}
                   /\ start_year > end_year => call.asked = <<>>
                   /\ Succeeds(call.ret)
                   /\ LET trend == call.ret.items.data.items.trend_data.items
                      IN  [j \in 1..Len(trend) |-> trend[j].year] =
                              [j \in 1..Len(succeeded) |-> call.asked[succeeded[j]]]

\* C26 witness: the period 2003-2013 was served by requesting 2003, 2008 and
\* 2013; the fetch of 2008 failed and trend_data holds 2003 and 2013.
C26_Witness ==
    /\ TrendsReturned
    /\ call.asked = <<2003, 2008, 2013>>
    /\ SucceededYears = {1, 3}
    /\ Len(call.ret.items.data.items.trend_data.items) = 2
    /\ call.ret.items.data.items.trend_data.items[1].year = 2003
    /\ call.ret.items.data.items.trend_data.items[2].year = 2013

(***************************************************************************)
(* NASALibraryService                                                      *)
(***************************************************************************)
\* the five searches of get_climate_change_visualization, in the order of
\* the code: each query is the location followed by one of these phrases
ClimatePhrases ==
    <<"climate change", "global warming", "temperature", "ice melting",
      "sea level rise">>

\* climate_queries
ClimateQueries(location) ==
    [k \in 1..Len(ClimatePhrases) |-> <<location, ClimatePhrases[k]>>]

\* how many items a readable answer of the search API may carry
ItemCounts == {0, 3, 9}

\* the j-th item the search API returns for a query
RawItem(query, j) ==
    Dict([data |-> List(<<Dict([nasa_id |-> <<query, j>>, media_type |-> "image"])>>),
          href |-> "https://images-assets.nasa.gov"])

\* an item whose `data` list is empty
EmptyDataItem == Dict([data |-> List(<<>>), href |-> ""])

\* upstream events: the readable answers are told apart by their item count,
\* "no_data" is the answer with an item whose `data` list is empty
LibraryAnswers ==
    {[event |-> e, count |-> 0] : e \in (UpstreamEvents \ {"ok_readable"}) \cup {"no_data"}}
        \cup {[event |-> "ok_readable", count |-> n] : n \in ItemCounts}

\* the JSON body of an answer
LibraryBody(query, answer) ==
    IF answer.event = "no_data"
    THEN Dict([collection |-> Dict([items |-> List(<<EmptyDataItem>>)])])
    ELSE Dict([collection |->
                  Dict([items |-> List([j \in 1..answer.count |-> RawItem(query, j)])])])

\* item.get("data", [{}])[0]: IndexError on an empty list
FirstData(item) ==
    LET d == DictGet(item, "data", List(<<Dict(<<>>)>>))
    IN  IF Len(d.items) = 0 THEN Exception("list index out of range") ELSE d.items[1]

\* _process_search_results
ProcessSearchResults(raw_data, query, media_type) ==
    LET items == DictGet(DictGet(raw_data, "collection", Dict(<<>>)),
                         "items", List(<<>>)).items
    IN  IF \E j \in 1..Len(items) : IsException(FirstData(items[j]))
        THEN Dict([error |-> "Error processing NASA Library data: list index out of range",
                   success |-> FALSE, data |-> None])
        ELSE Dict([success |-> TRUE,
                   data |-> Dict([query |-> query,
                                  media_type |-> media_type,
                                  items |-> List([j \in 1..Len(items) |->
                                      Dict([nasa_id |-> DictGet(FirstData(items[j]), "nasa_id", ""),
                                            media_type |-> DictGet(FirstData(items[j]), "media_type", ""),
                                            href |-> DictGet(items[j], "href", "")])]),
                                  search_timestamp |-> "isoformat"]),
                   message |-> Len(items)])

\* the try block of search_urban_imagery
SearchUrbanImageryTry(query, media_type, answer) ==
    CASE answer.event = "transport_error" -> Exception("Cannot connect to host")
      [] answer.event = "status_other" -> Exception("API request failed with status")
      [] answer.event = "ok_unreadable" -> Exception("Expecting value")
      [] OTHER -> ProcessSearchResults(LibraryBody(query, answer), query, media_type)

\* search_urban_imagery: the except clause returns the error mapping
SearchUrbanImagery(query, media_type, answer) ==
    LET r == SearchUrbanImageryTry(query, media_type, answer)
    IN  IF IsException(r) THEN ErrorResult(r) ELSE r

\* all_results: the items of the successful searches, in the order of the
\* searches
RECURSIVE AllResults(_)
AllResults(got) ==
    IF got = <<>> THEN <<>>
    ELSE (IF Succeeds(Head(got))
          THEN DictGet(DictGet(Head(got), "data", Dict(<<>>)), "items", List(<<>>)).items
          ELSE <<>>)
         \o AllResults(Tail(got))

\* the result of a variant that returns every item
ClimateChangeVisualizationUncut(location, got) ==
    LET all_results == AllResults(got)
    IN  Dict([success |-> TRUE,
              data |-> Dict([location |-> location,
                             time_period |-> "decade",
                             total_results |-> Len(all_results),
                             items |-> List(all_results),
                             climate_insights |->
                                 Dict([location |-> location,
                                       total_images |-> Len(all_results)]),
                             analysis_timestamp |-> "isoformat"]),
              message |-> "Climate change visualization data retrieved"])

\* get_climate_change_visualization once the five searches returned
ClimateChangeVisualization(location, got) ==
    LET all_results == AllResults(got)
    IN  Dict([success |-> TRUE,
              data |-> Dict([location |-> location,
                             time_period |-> "decade",
                             total_results |-> Len(all_results),
                             items |-> List(Take(all_results, 20)),
                             climate_insights |->
                                 Dict([location |-> location,
                                       total_images |-> Len(all_results)]),
                             analysis_timestamp |-> "isoformat"]),
              message |-> "Climate change visualization data retrieved"])

\* values of the `location` parameter
LibraryLocations == {"global", "Arctic"}

\* GET /api/nasa-library/climate-visualization: the handler calls the
\* method, which issues the first search
ClimateVisualizationRequest(location) ==
    /\ CallFree
    /\ call' = [op |-> "get_climate_change_visualization", pc |-> "awaiting",
                args |-> <<location>>,
                asked |-> <<ClimateQueries(location)[1]>>,
                got |-> <<>>, ret |-> None, response |-> None]
    /\ UNCHANGED outside_call

\* the search API answers the search in progress: the method issues the next
\* search or, after the fifth, builds its result and returns
ClimateVisualizationAnswer(answer) ==
    /\ call.op = "get_climate_change_visualization"
    /\ call.pc = "awaiting"
    /\ LET queries == ClimateQueries(call.args[1])
           k == Len(call.got) + 1
           got == Append(call.got, SearchUrbanImagery(queries[k], "image", answer))
       IN  call' =
               IF k < Len(queries)
               THEN [call EXCEPT !.got = got, !.asked = Append(@, queries[k + 1])]
               ELSE LET ret == ClimateChangeVisualization(call.args[1], got)
                    IN  [call EXCEPT !.got = got, !.pc = "returned", !.ret = ret,
                                     !.response = [status |-> 200, body |-> ret]]
    /\ UNCHANGED outside_call

NextLibrary ==
    \/ \E location \in LibraryLocations : ClimateVisualizationRequest(location)
    \/ \E answer \in LibraryAnswers : ClimateVisualizationAnswer(answer)

SpecLibrary == Init /\ [][NextLibrary]_vars

(***************************************************************************)
(* Claims about NASALibraryService.get_climate_change_visualization        *)
(***************************************************************************)
VisualizationCalled == call.op = "get_climate_change_visualization"
VisualizationReturned == VisualizationCalled /\ call.pc = "returned"

\* the searches that succeeded, by position
SucceededSearches == {k \in 1..Len(call.got) : Succeeds(call.got[k])}

\* <<k, j>>: the j-th item of the k-th search, for the successful searches
FoundItems ==
    UNION {{<<k, j>> : j \in 1..Len(call.got[k].items.data.items.items.items)} :
               k \in SucceededSearches}

\* <<k, j>> comes before <<k2, j2>> in query order
Before(a, b) == a[1] < b[1] \/ (a[1] = b[1] /\ a[2] < b[2])

\* the search and the rank a returned item came from
Origin(item) ==
    <<CHOOSE k \in 1..5 : ClimateQueries(call.args[1])[k] = item.items.nasa_id[1],
      item.items.nasa_id[2]>>

\* C27: get_climate_change_visualization issues exactly five searches, one
\* per fixed query, one after another.  The items of failed searches are
\* skipped and those of the successful ones are concatenated in query
\* order; `items` holds the first 20 of them at most while total_results is
\* the full count, so len(items) = min(20, total_results); the call returns
\* success true, and the handler 200, even when all five searches failed.
C27_FiveSearchesFirstTwenty ==
    VisualizationCalled =>
        /\ \A k \in 1..Len(call.asked) :
               call.asked[k] = <<call.args[1], ClimatePhrases[k]>>
        /\ Len(call.asked) = Len(call.got) + (IF call.pc = "awaiting" THEN 1 ELSE 0)
        /\ call.pc = "returned" =>
               /\ Len(call.asked) = 5
               /\ Succeeds(call.ret)
               /\ call.response = [status |-> 200, body |-> call.ret]
               /\ LET items == call.ret.items.data.items.items.items
                      total == call.ret.items.data.items.total_results
                      origin == [p \in 1..Len(items) |-> Origin(items[p])]
                      returned == {origin[p] : p \in 1..Len(items)}
                      found == FoundItems
                  IN  /\ total = Cardinality(found)
                      /\ Len(items) = IF total < 20 THEN total ELSE 20
                      /\ returned \subseteq found
                      /\ \A p \in 1..Len(items) \ {1} : Before(origin[p - 1], origin[p])
                      /\ \A kj \in found \ returned :
                             \A p \in 1..Len(items) : Before(origin[p], kj)

\* C27 witness: a call returned after its second search had failed and the
\* others had found 21 items or more; 20 of them are returned.
C27_Witness ==
    /\ VisualizationReturned
    /\ 2 \notin SucceededSearches
    /\ call.ret.items.data.items.total_results > 20
    /\ Len(call.ret.items.data.items.items.items) = 20
    /\ call.ret.items.success = TRUE

(***************************************************************************)
(* Operations derived from one fetch                                       *)
(***************************************************************************)
WorldPopDerived == {"get_urban_population_density", "get_demographic_analysis"}
LandsatDerived == {"get_vegetation_analysis", "get_urban_heat_island_data"}
CopernicusDerived == {"get_land_use_data", "get_climate_data", "get_atmospheric_data"}
LibraryDerived == {"get_historical_urban_data"}
DerivedOps == WorldPopDerived \cup LandsatDerived \cup CopernicusDerived \cup LibraryDerived

\* the fetch each derived operation awaits first
UnderlyingFetch(op) ==
    CASE op \in WorldPopDerived -> "get_population_data"
      [] op \in LandsatDerived -> "get_satellite_imagery"
      [] op \in CopernicusDerived -> "get_available_products"
      [] op \in LibraryDerived -> "search_urban_imagery"

\* arguments of a derived operation; each operation reads those it takes
DerivedArgs ==
    {[lat |-> loc[1], lng |-> loc[2], country_code |-> "USA", year |-> year,
      city_name |-> "New York"] :
        loc \in LandsatLocations, year \in {2000, 2020}}

\* what the upstream of an operation may do with its request
DerivedAnswers(op) ==
    CASE op \in WorldPopDerived -> WorldPopAnswers
      [] op \in LibraryDerived -> LibraryAnswers
      [] OTHER -> {[event |-> e] : e \in UpstreamEvents}

\* the result of the underlying fetch of an operation
Underlying(op, args, answer) ==
    CASE op \in WorldPopDerived ->
            GetPopulationData(args.country_code, args.year, answer)
      [] op \in LandsatDerived -> LandsatSearch("open", answer.event)
      [] op \in CopernicusDerived -> GetAvailableProducts(answer.event)
      [] op \in LibraryDerived ->
            SearchUrbanImagery(<<args.city_name, "urban city satellite">>,
                               "image", answer)

\* the three figures of a successful get_population_data
PopulationFigures(population_data) ==
    [k \in PopulationMetrics |->
        DictGet(DictGet(population_data, "data", Dict(<<>>)), k, 0)]

\* get_urban_population_density after a successful fetch
UrbanPopulationDensity(args, country_data) ==
    Dict([success |-> TRUE,
          data |-> Dict([location |-> <<args.lat, args.lng>>,
                         country |-> args.country_code,
                         year |-> args.year,
                         population_metrics |-> Dict(PopulationFigures(country_data)),
                         data_sources |->
                             DictGet(DictGet(country_data, "data", Dict(<<>>)),
                                     "data_sources", List(<<>>)),
                         analysis_timestamp |-> "isoformat"]),
          message |-> "Population density analysis"])

\* _categorize_urbanization
CategorizeUrbanization(urban_percentage) ==
    IF urban_percentage >= 80 THEN "Highly Urbanized"
    ELSE IF urban_percentage >= 60 THEN "Moderately Urbanized"
    ELSE IF urban_percentage >= 40 THEN "Semi-Urbanized"
    ELSE "Rural Dominant"

\* _categorize_density
CategorizeDensity(density) ==
    IF density >= 1000 THEN "Very High Density"
    ELSE IF density >= 500 THEN "High Density"
    ELSE IF density >= 100 THEN "Medium Density"
    ELSE IF density >= 50 THEN "Low Density"
    ELSE "Very Low Density"

\* _generate_planning_recommendations: the first recommendation of each
\* group it extends the list with
GeneratePlanningRecommendations(d) ==
    LET urban_percentage == DictGet(d, "urban_percentage", 0)
        density == DictGet(d, "population_density", 0)
    IN  <<IF urban_percentage >= 80 THEN "Focus on urban renewal and redevelopment"
          ELSE IF urban_percentage >= 60 THEN "Plan for continued urbanization"
          ELSE "Prepare for urban migration trends">>
        \o (IF density >= 1000 THEN <<"Implement high-density housing solutions">>
            ELSE <<>>)

\* get_demographic_analysis after a successful fetch
DemographicAnalysis(args, population_data) ==
    LET figures == PopulationFigures(population_data)
    IN  Dict([success |-> TRUE,
              data |-> Dict([country |-> args.country_code,
                             year |-> args.year,
                             demographics |->
                                 Dict(figures @@
                                      [rural_percentage |-> 100 - figures.urban_percentage]),
                             urban_planning_insights |->
                                 Dict([urbanization_level |->
                                           CategorizeUrbanization(figures.urban_percentage),
                                       density_category |->
                                           CategorizeDensity(figures.population_density),
                                       planning_recommendations |->
                                           List(GeneratePlanningRecommendations(
                                               DictGet(population_data, "data", Dict(<<>>))))]),
                             analysis_timestamp |-> "isoformat"]),
              message |-> "Demographic analysis"])

\* the bands get_vegetation_analysis keeps
VegetationBands == {"nir08", "red", "green", "blue"}

\* the bands get_urban_heat_island_data keeps; no band name of LandsatScenes
\* holds the word thermal
ThermalBands == {"lwir11", "lwir12"}

\* the entries made of the scenes that have one of the bands; a processed
\* scene has no `properties`, so the date is '' and the cloud cover 0
BandEntries(satellite_data, bands) ==
    LET scenes == DictGet(satellite_data, "data", List(<<>>)).items
        kept(scene) == DOMAIN DictGet(scene, "assets", Dict(<<>>)).items \cap bands
        with_bands == SelectSeq(scenes, LAMBDA scene : kept(scene) # {})
    IN  [j \in 1..Len(with_bands) |->
            Dict([date |-> DictGet(DictGet(with_bands[j], "properties", Dict(<<>>)),
                                   "datetime", ""),
                  cloud_cover |-> DictGet(DictGet(with_bands[j], "properties", Dict(<<>>)),
                                          "eo:cloud_cover", 0),
                  bands |-> kept(with_bands[j])])]

\* get_vegetation_analysis after a successful fetch
VegetationAnalysis(args, satellite_data) ==
    LET metrics == BandEntries(satellite_data, VegetationBands)
    IN  Dict([success |-> TRUE,
              data |-> Dict([location |-> <<args.lat, args.lng>>,
                             vegetation_metrics |-> List(metrics),
                             analysis_timestamp |-> "isoformat"]),
              message |-> Len(metrics)])

\* get_urban_heat_island_data after a successful fetch
UrbanHeatIslandData(args, satellite_data) ==
    LET thermal == BandEntries(satellite_data, ThermalBands)
    IN  Dict([success |-> TRUE,
              data |-> Dict([location |-> <<args.lat, args.lng>>,
                             thermal_data |-> List(thermal),
                             analysis_timestamp |-> "isoformat"]),
              message |-> Len(thermal)])

\* get_historical_urban_data after a successful search; the items of RawItem
\* carry no date and no keyword
HistoricalUrbanData(args, search_result) ==
    LET d == DictGet(search_result, "data", Dict(<<>>))
        items == DictGet(d, "items", List(<<>>))
    IN  Dict([success |-> TRUE,
              data |-> Dict([city |-> args.city_name,
                             decade |-> None,
                             media_type |-> "image",
                             total_results |-> DictGet(d, "total_results", 0),
                             items |-> items,
                             historical_insights |->
                                 Dict([city |-> args.city_name,
                                       total_images |-> Len(items.items),
                                       date_range |-> Dict([earliest |-> "", latest |-> ""]),
                                       common_themes |-> List(<<>>)]),
                             analysis_timestamp |-> "isoformat"]),
              message |-> "Historical urban data retrieved"])

\* what each operation makes of a successful fetch
DerivedAnalysis(op, args, fetched) ==
    CASE op = "get_urban_population_density" -> UrbanPopulationDensity(args, fetched)
      [] op = "get_demographic_analysis" -> DemographicAnalysis(args, fetched)
      [] op = "get_vegetation_analysis" -> VegetationAnalysis(args, fetched)
      [] op = "get_urban_heat_island_data" -> UrbanHeatIslandData(args, fetched)
      [] op = "get_land_use_data" -> CopernicusAnalysis(1, args.lat, args.lng, fetched)
      [] op = "get_climate_data" -> CopernicusAnalysis(2, args.lat, args.lng, fetched)
      [] op = "get_atmospheric_data" -> CopernicusAnalysis(3, args.lat, args.lng, fetched)
      [] op = "get_historical_urban_data" -> HistoricalUrbanData(args, fetched)

\* a variant that reports a failed fetch in a mapping of its own
DerivedOperationRewrapping(op, args, fetched) ==
    IF ~Succeeds(fetched)
    THEN ErrorResult(Exception(UnderlyingFetch(op)))
    ELSE DerivedAnalysis(op, args, fetched)

\* `if not fetched.get("success"): return fetched`, then the analysis
DerivedOperation(op, args, fetched) ==
    IF ~Succeeds(fetched)
    THEN fetched
    ELSE DerivedAnalysis(op, args, fetched)

\* a derived operation is called.  get_satellite_imagery divides before it
\* sends anything: for a divisor of zero it raises, and the except clause of
\* the derived operation returns the error mapping.  Every other call sends
\* the request of its fetch and awaits the answer.
DerivedCall(op, args) ==
    /\ CallFree
    /\ LET frame == [op |-> op, pc |-> "awaiting", args |-> args,
                     asked |-> <<UnderlyingFetch(op)>>, got |-> <<>>,
                     ret |-> None, response |-> None]
           raised == Exception("float division by zero")
       IN  call' =
               IF op \in LandsatDerived /\ LngOffsetDivisor(args.lat) = 0
               THEN [frame EXCEPT !.pc = "returned", !.asked = <<>>,
                                  !.got = <<raised>>, !.ret = ErrorResult(raised)]
               ELSE frame
    /\ UNCHANGED outside_call

\* the upstream answers: the fetch returns and the operation returns
DerivedAnswer(answer) ==
    /\ call.op \in DerivedOps
    /\ call.pc = "awaiting"
    /\ answer \in DerivedAnswers(call.op)
    /\ LET fetched == Underlying(call.op, call.args, answer)
       IN  call' = [call EXCEPT !.pc = "returned", !.got = <<fetched>>,
                                !.ret = DerivedOperation(call.op, call.args, fetched)]
    /\ UNCHANGED outside_call

NextDerived ==
    \/ \E op \in DerivedOps, args \in DerivedArgs : DerivedCall(op, args)
    \/ \E answer \in WorldPopAnswers \cup LibraryAnswers
                        \cup {[event |-> e] : e \in UpstreamEvents} :
           DerivedAnswer(answer)

SpecDerived == Init /\ [][NextDerived]_vars

(***************************************************************************)
(* Claims about the derived operations                                     *)
(***************************************************************************)
DerivedReturned == call.op \in DerivedOps /\ call.pc = "returned"

\* the underlying fetch returned a result whose success is not true
FetchFailed ==
    /\ DerivedReturned
    /\ call.got[1].class = "dict"
    /\ ~Succeeds(call.got[1])

\* C24: when the underlying fetch of a derived operation returns a result
\* whose success is not true, the operation returns exactly that result,
\* sends no further request, and does not raise; no derived operation ever
\* raises.
C24_FailurePropagates ==
    /\ DerivedReturned => call.ret.class = "dict"
    /\ FetchFailed =>
           /\ call.ret = call.got[1]
           /\ call.asked = <<UnderlyingFetch(call.op)>>

\* C24 witness: get_historical_urban_data returned the failure of a search
\* that the upstream answered with a status other than 200.
C24_Witness ==
    /\ FetchFailed
    /\ call.op = "get_historical_urban_data"
    /\ call.got[1].items.error = "API request failed with status"
    /\ call.ret = call.got[1]

(***************************************************************************)
(* Claims about POST /api/analyze and GeminiService                        *)
(***************************************************************************)
\* C28: POST /api/analyze aggregates the NASA data first and consults
\* GeminiService at most once, afterwards.  While the aggregation runs,
\* Gemini has not been called.  A served request whose query is absent or
\* empty has gemini_insights null and made no Gemini call; any other has
\* made exactly one call, for that query and with the aggregate, and
\* gemini_insights is the string it returned.  A body with fewer than two
\* coordinates is answered 500 without aggregation and without Gemini call.
C28_GeminiAfterAggregation ==
    /\ pc = "nasa_gathering" => (call.asked = <<>> /\ response = None)
    /\ pc = "nasa_responded" =>
           IF Len(analyze_body["coordinates"]) < 2
           THEN /\ response.status = 500
                /\ data = None
                /\ call.asked = <<>>
           ELSE /\ response.status = 200
                /\ data # None
                /\ response.body.items.nasa_data = data
                /\ Len(call.asked) <= 1
                /\ IF "query" \notin DOMAIN analyze_body \/ analyze_body["query"] = ""
                   THEN /\ call.asked = <<>>
                        /\ response.body.items.gemini_insights = None
                   ELSE /\ call.asked = <<[query |-> analyze_body["query"],
                                           nasa_data |-> data]>>
                        /\ response.body.items.gemini_insights = PyStr(call.got[1])

\* C28 witness: a request with an empty query was served 200 with
\* gemini_insights null after one of its fetches had raised.
C28_Witness ==
    /\ pc = "nasa_responded"
    /\ "query" \in DOMAIN analyze_body
    /\ analyze_body["query"] = ""
    /\ response.status = 200
    /\ response.body.items.gemini_insights = None
    /\ \E i \in NASASources : task[i] = "Failed"

(***************************************************************************)
(* AIAnalysisService.generate_visualization_data and its endpoint          *)
(***************************************************************************)
\* a float query parameter: FastAPI accepts nan and inf as well as numbers
Float(x) == [class |-> "float", finite |-> TRUE, value |-> x]
NaN == [class |-> "float", finite |-> FALSE, value |-> 0]

\* values of the query parameters of GET /api/ai/visualization-data
AnalysisTypes == {"map", "chart", "dashboard", "", "Map", "table", "heatmap"}
VisualizationLats == {Float(0), Float(40), Float(-90), NaN}
VisualizationLngs == {Float(0), Float(-74), Float(180), NaN}

\* _generate_map_data
GenerateMapData(context) ==
    Dict([layers |->
              List(<<Dict([name |-> "Satellite Imagery", type |-> "raster",
                           source |-> "Landsat STAC API", visible |-> TRUE]),
                     Dict([name |-> "Population Density", type |-> "heatmap",
                           source |-> "WorldPop API", visible |-> TRUE]),
                     Dict([name |-> "Environmental Data", type |-> "vector",
                           source |-> "EU Copernicus", visible |-> FALSE])>>),
          center |-> List(<<DictGet(context, "lng", Float(0)),
                            DictGet(context, "lat", Float(0))>>),
          zoom |-> 12])

\* _generate_chart_data; the sustainability metrics are held in tenths
GenerateChartData(context) ==
    Dict([sustainability_metrics |->
              Dict([environmental |-> 75, social |-> 68, economic |-> 70,
                    governance |-> 75]),
          climate_trends |->
              Dict([temperature |-> List(<<20, 21, 22, 23, 24>>),
                    precipitation |-> List(<<100, 110, 95, 120, 105>>)]),
          population_growth |->
              Dict([years |-> List(<<2015, 2016, 2017, 2018, 2019, 2020>>),
                    population |-> List(<<1000, 1050, 1100, 1150, 1200, 1250>>)])])

\* _generate_dashboard_data
GenerateDashboardData(context) ==
    Dict([kpi_cards |->
              List(<<Dict([title |-> "Sustainability Score", value |-> "7.2",
                           unit |-> "/10", trend |-> "increasing"]),
                     Dict([title |-> "Population Density", value |-> "High",
                           unit |-> "", trend |-> "stable"]),
                     Dict([title |-> "Climate Risk", value |-> "Medium",
                           unit |-> "", trend |-> "stable"])>>),
          charts |-> GenerateChartData(context),
          alerts |->
              List(<<"High population density detected",
                     "Climate adaptation needed",
                     "Green space opportunities available">>)])

\* generate_visualization_data: the comparison of analysis_type is exact
GenerateVisualizationData(analysis_type, context) ==
    CASE analysis_type = "map" -> GenerateMapData(context)
      [] analysis_type = "chart" -> GenerateChartData(context)
      [] analysis_type = "dashboard" -> GenerateDashboardData(context)
      [] OTHER -> Dict([error |-> "Unknown visualization type"])

\* json.dumps(..., allow_nan=False) of the payload: only the centre of the
\* map holds numbers taken from the request
JsonCompliant(d) ==
    HasKey(d, "center") =>
        \A j \in 1..Len(d.items.center.items) : d.items.center.items[j].finite

\* a handler that answers an error value with an error status
VisualizationResponseByValue(d) ==
    IF HasKey(d, "error")
    THEN [status |-> 400, body |-> d]
    ELSE IF JsonCompliant(d)
    THEN [status |-> 200, body |-> d]
    ELSE HttpError("Out of range float values are not JSON compliant")

\* `return JSONResponse(content=data)` inside the try block of the handler
VisualizationResponse(d) ==
    IF JsonCompliant(d)
    THEN [status |-> 200, body |-> d]
    ELSE HttpError("Out of range float values are not JSON compliant")

\* GET /api/ai/visualization-data: no step of the handler suspends
GetVisualizationData(analysis_type, lat, lng) ==
    /\ CallFree
    /\ LET context == Dict([lat |-> lat, lng |-> lng])
           d == GenerateVisualizationData(analysis_type, context)
       IN  call' = [op |-> "generate_visualization_data", pc |-> "returned",
                    args |-> <<analysis_type, lat, lng>>, asked |-> <<>>,
                    got |-> <<>>, ret |-> d,
                    response |-> VisualizationResponse(d)]
    /\ UNCHANGED outside_call

NextVisualization ==
    \E analysis_type \in AnalysisTypes, lat \in VisualizationLats,
       lng \in VisualizationLngs :
        GetVisualizationData(analysis_type, lat, lng)

SpecVisualization == Init /\ [][NextVisualization]_vars

(***************************************************************************)
(* Claims about generate_visualization_data                                *)
(***************************************************************************)
VisualizationServed == call.op = "generate_visualization_data"

\* C29: generate_visualization_data dispatches on analysis_type.  'map',
\* 'chart' and 'dashboard' return the map, the chart and the dashboard
\* payload, the `charts` field of the dashboard being the chart payload;
\* every other analysis_type returns {'error': 'Unknown visualization type'}
\* as a value, and the endpoint delivers that value with status 200.
C29_VisualizationDispatch ==
    VisualizationServed =>
        LET analysis_type == call.args[1]
            context == Dict([lat |-> call.args[2], lng |-> call.args[3]])
        IN  /\ analysis_type = "map" =>
                   /\ DOMAIN call.ret.items = {"layers", "center", "zoom"}
                   /\ call.ret.items.center = List(<<call.args[3], call.args[2]>>)
            /\ analysis_type = "chart" =>
                   /\ DOMAIN call.ret.items =
                          {"sustainability_metrics", "climate_trends", "population_growth"}
                   /\ call.ret = GenerateChartData(context)
            /\ analysis_type = "dashboard" =>
                   /\ DOMAIN call.ret.items = {"kpi_cards", "charts", "alerts"}
                   /\ call.ret.items.charts = GenerateChartData(context)
            /\ analysis_type \notin {"map", "chart", "dashboard"} =>
                   /\ call.ret = Dict([error |-> "Unknown visualization type"])
                   /\ call.response = [status |-> 200, body |-> call.ret]

\* C29 witness: a request for the type 'Map' was answered 200 with the error
\* value.
C29_Witness ==
    /\ VisualizationServed
    /\ call.args[1] = "Map"
    /\ call.response.status = 200
    /\ call.response.body = Dict([error |-> "Unknown visualization type"])

(***************************************************************************)
(* Tile addressing of OfficialNASAService.get_earthdata_worldview_data      *)
(***************************************************************************)
\* latitudes on both sides of each threshold of _calculate_zoom_level, and
\* the poles
TileLats == {-90, -61, -60, -31, -30, -16, -15, 0, 15, 16, 30, 31, 40, 60, 61, 90}

\* longitudes: both ends of the valid range, the quadrant borders and their
\* neighbours
TileLngs == {-180, -179, -91, -90, -1, 0, 1, 89, 90, 179, 180}

\* _calculate_zoom_level
CalculateZoomLevel(lat, lng) ==
    IF Abs(lat) > 60 THEN 3
    ELSE IF Abs(lat) > 30 THEN 4
    ELSE IF Abs(lat) > 15 THEN 5
    ELSE 6

\* 2 ** zoom
RECURSIVE Pow2(_)
Pow2(zoom) == IF zoom = 0 THEN 1 ELSE 2 * Pow2(zoom - 1)

\* _lat_to_tile at the zoom of the latitude: the value of
\* int((1 - asinh(tan(radians(lat))) / pi) / 2 * 2 ** zoom) for each latitude
\* of TileLats
LatToTile(lat, zoom) ==
    CASE lat = -90 -> 52 [] lat = -61 -> 5 [] lat = -60 -> 11 [] lat = -31 -> 9
      [] lat = -30 -> 18 [] lat = -16 -> 17 [] lat = -15 -> 34 [] lat = 0 -> 32
      [] lat = 15 -> 29 [] lat = 16 -> 14 [] lat = 30 -> 13 [] lat = 31 -> 6
      [] lat = 40 -> 6 [] lat = 60 -> 4 [] lat = 61 -> 2 [] lat = 90 -> -44

\* _lng_to_tile: int((lng + 180) / 360 * 2 ** zoom); the quotient is not
\* negative for lng >= -180, so int() rounds it down
LngToTile(lng, zoom) == ((lng + 180) * Pow2(zoom)) \div 360

\* GET /api/official/earthdata-worldview: the fetch computes the zoom and
\* the tile, builds the URL from them and sends the request
WorldviewRequest(lat, lng) ==
    /\ CallFree
    /\ LET zoom == CalculateZoomLevel(lat, lng)
       IN  call' = [op |-> "get_earthdata_worldview_data", pc |-> "awaiting",
                    args |-> <<lat, lng>>,
                    asked |-> <<[zoom |-> zoom, row |-> LatToTile(lat, zoom),
                                 column |-> LngToTile(lng, zoom)]>>,
                    got |-> <<>>, ret |-> None, response |-> None]
    /\ UNCHANGED outside_call

\* the upstream answers: the fetch returns and the handler answers 200
WorldviewAnswer(event) ==
    /\ call.op = "get_earthdata_worldview_data"
    /\ call.pc = "awaiting"
    /\ LET ret == OfficialFetch(1, call.args[1], call.args[2], event)
       IN  call' = [call EXCEPT !.pc = "returned", !.got = <<event>>, !.ret = ret,
                                !.response = [status |-> 200, body |-> ret]]
    /\ UNCHANGED outside_call

NextTiles ==
    \/ \E lat \in TileLats, lng \in TileLngs : WorldviewRequest(lat, lng)
    \/ \E event \in UpstreamEvents : WorldviewAnswer(event)

SpecTiles == Init /\ [][NextTiles]_vars

(***************************************************************************)
(* Claims about tile addressing                                            *)
(***************************************************************************)
\* C30 (as claimed): the zoom computed for a request is one of 3, 4, 5 and 6
\* and, for every longitude from -180 to 180, both ends included, the column
\* of the tile requested is in 0 .. 2^zoom - 1.
C30_TileInRange ==
    (call.op = "get_earthdata_worldview_data" /\ call.args[2] \in -180..180) =>
        /\ call.asked[1].zoom \in {3, 4, 5, 6}
        /\ call.asked[1].column \in 0..(Pow2(call.asked[1].zoom) - 1)

====
